---- MODULE Spec2Model ----
(***************************************************************************)
(* A model of criterion-compare's benchmark comparison engine              *)
(* (src/src/results.ts): MeasurementStats, BenchmarkResult,                *)
(* BenchmarkComparison, resultsFromJSONString, processResults and the      *)
(* unit selection of the report.                                           *)
(*                                                                         *)
(* JavaScript values.  A JSON number, a missing key (undefined) and the    *)
(* results of arithmetic on them are records [t, n, d]:                    *)
(*   t = "number"    the rational n / d, d > 0, in lowest terms            *)
(*   t = "undefined" a key that is absent from the JSON object             *)
(*   t = "NaN"       the result of arithmetic on undefined, or of 0 / 0    *)
(*   t = "Infinity"  n = 1 for +Infinity, n = -1 for -Infinity             *)
(* The numbers read from JSON are integers (d = 1); only a division makes  *)
(* a proper fraction.  Rounding of IEEE doubles is not modelled.           *)
(***************************************************************************)
EXTENDS Integers, Sequences, FiniteSets, TLC

VARIABLES
    pc,           \* position of the operation under way
    log,          \* diagnostics emitted so far (core.error, core.warning, console.error)
    body,         \* MeasurementStats constructor: the JSON sub-record it is given
    stats,        \* MeasurementStats constructor: the object it built
    benchBase,    \* BenchmarkComparison constructor: argument base
    benchDelta,   \* BenchmarkComparison constructor: argument delta
    comparison,   \* BenchmarkComparison constructor: the object built, or the error thrown
    s,            \* displayUnits: the duration in nanoseconds
    unit,         \* displayUnits: the unit returned
    result1,      \* runComparison: the JSON exported for the base run
    result2,      \* runComparison: the JSON exported for the changed run
    baseResults,  \* runComparison: resultsFromJSONString(result1.stdOut)
    changeResults,\* runComparison: resultsFromJSONString(result2.stdOut)
    results,      \* runComparison: processResults(baseResults, changeResults)
    error,        \* the message of the exception that ended the operation, "" if none
    args,         \* the ActionArguments of the run
    sha,          \* github.context.sha, as a sequence of characters
    table,        \* runComparison: the markdown table built so far
    insignificant,\* runComparison: the names of the comparisons that are not significant
    otherResults, \* runComparison: the text about the benchmarks of one run only
    mdTable,      \* runComparison: the report returned
    outputs,      \* run: the outputs set with core.setOutput
    failed,       \* run: the message given to core.setFailed, <<>> if it was not called
    comments,     \* run: the bodies of the comments created on the pull request
    printed,      \* run: the texts written with console.log
    cmds,         \* run: the commands executed so far, in order
    codes         \* run: how each command of cmds ended, an element of ExecOutcomes

renderVars == <<args, sha, table, insignificant, otherResults, mdTable>>
runVars == <<outputs, failed, comments, printed, cmds, codes>>
unitVars == <<body, stats, benchBase, benchDelta, comparison, s, unit>>
parseVars == <<result1, result2, baseResults, changeResults, results>>
reportVars == <<table, insignificant, otherResults, mdTable>>

vars == <<pc, log, body, stats, benchBase, benchDelta, comparison, s, unit,
          result1, result2, baseResults, changeResults, results, error,
          renderVars, runVars>>

(***************************************************************************)
(* Bounds of the model.                                                    *)
(***************************************************************************)
MaxMean == 3       \* means range over -MaxMean .. MaxMean (and the samples below)
MaxErr == 2        \* std-dev point estimates range over -1 .. MaxErr (and the sample)
MaxOff == 12       \* durations within MaxOff of each threshold of displayUnits
MaxBench == 2      \* benchmarks per exported run
MaxList == 3       \* records of the base list given to processResults alone

\* The value of a variable that the specification under way does not use.
None == [t |-> "none"]

\* The state of runComparison's report and of run before they start.
NoReport ==
    /\ table = <<>> /\ insignificant = <<>> /\ otherResults = <<>> /\ mdTable = <<>>
NoRun ==
    /\ outputs = <<>> /\ failed = <<>> /\ comments = <<>> /\ printed = <<>>
    /\ cmds = <<>>
    /\ codes = <<>>

(***************************************************************************)
(* JavaScript numbers                                                      *)
(***************************************************************************)
Undef == [t |-> "undefined", n |-> 0, d |-> 1]
NaN == [t |-> "NaN", n |-> 0, d |-> 1]
Num(i) == [t |-> "number", n |-> i, d |-> 1]
Inf(sign) == [t |-> "Infinity", n |-> sign, d |-> 1]

Abs(i) == IF i < 0 THEN -i ELSE i

RECURSIVE Gcd(_, _)
Gcd(a, b) == IF b = 0 THEN a ELSE Gcd(b, a % b)

\* The rational a / b (b # 0) in lowest terms with a positive denominator.
Ratio(a, b) ==
    LET g == Gcd(Abs(a), Abs(b))
        sg == IF b < 0 THEN -1 ELSE 1
    IN  [t |-> "number", n |-> sg * (a \div g), d |-> sg * (b \div g)]

\* typeof v === 'number'
IsNumber(v) == v.t # "undefined"
\* ToNumber(v) is a finite number
IsFinite(v) == v.t = "number"
\* v == null (null or undefined)
IsNullish(v) == v.t = "undefined"

\* a + b and a - b for operands read from JSON (finite, or undefined -> NaN)
JsAdd(a, b) ==
    IF IsFinite(a) /\ IsFinite(b)
    THEN Ratio(a.n * b.d + b.n * a.d, a.d * b.d)
    ELSE NaN
JsSub(a, b) ==
    IF IsFinite(a) /\ IsFinite(b)
    THEN Ratio(a.n * b.d - b.n * a.d, a.d * b.d)
    ELSE NaN
JsMul(a, b) ==
    IF IsFinite(a) /\ IsFinite(b)
    THEN Ratio(a.n * b.n, a.d * b.d)
    ELSE NaN
\* a / b: x / 0 is +-Infinity, 0 / 0 is NaN
JsDiv(a, b) ==
    IF ~(IsFinite(a) /\ IsFinite(b)) THEN NaN
    ELSE IF b.n = 0
         THEN IF a.n = 0 THEN NaN ELSE Inf(IF a.n > 0 THEN 1 ELSE -1)
         ELSE Ratio(a.n * b.d, a.d * b.n)

\* a < b: false as soon as one side is NaN or undefined
JsLt(a, b) ==
    CASE a.t \in {"NaN", "undefined"} \/ b.t \in {"NaN", "undefined"} -> FALSE
      [] IsFinite(a) /\ IsFinite(b) -> a.n * b.d < b.n * a.d
      [] IsFinite(a) -> b.n = 1
      [] IsFinite(b) -> a.n = -1
      [] OTHER -> a.n < b.n
JsGt(a, b) == JsLt(b, a)
JsLe(a, b) ==
    CASE a.t \in {"NaN", "undefined"} \/ b.t \in {"NaN", "undefined"} -> FALSE
      [] OTHER -> ~JsLt(b, a)

\* a ?? b
Coalesce(a, b) == IF IsNullish(a) THEN b ELSE a

(***************************************************************************)
(* displayUnits                                                            *)
(***************************************************************************)
Thousand == 1000
Million == 1000000
Billion == 1000000000

displayUnits(x) ==
    IF JsLt(Num(0), x) /\ JsLt(x, Num(Thousand)) THEN "ns"
    ELSE IF JsLe(Num(Thousand), x) /\ JsLt(x, Num(Million)) THEN "us"
    ELSE IF JsLe(Num(Million), x) /\ JsLt(x, Num(Billion)) THEN "ms"
    ELSE "s"

(***************************************************************************)
(* MeasurementStats                                                        *)
(*                                                                         *)
(* A JSON sub-record is [point_estimate, standard_error,                   *)
(* confidence_interval], the last one [present, lower_bound, upper_bound,  *)
(* confidence_level]; a missing key holds Undef.                           *)
(***************************************************************************)
NoCI == [present |-> FALSE, lower_bound |-> Undef, upper_bound |-> Undef,
         confidence_level |-> Undef]

\* The diagnostics with the warning decided on the absolute values.
StatsDiagnostics_Abs(b) ==
    (IF ~IsNumber(b.point_estimate)
     THEN <<[level |-> "error", msg |-> "No 'point_estimate' found"]>> ELSE <<>>)
    \o (IF ~IsNumber(b.standard_error)
        THEN <<[level |-> "error", msg |-> "No 'standard_error' found"]>> ELSE <<>>)
    \o (IF \/ (IsFinite(b.point_estimate) /\ Abs(b.point_estimate.n) < b.point_estimate.d)
           \/ (IsFinite(b.standard_error) /\ Abs(b.standard_error.n) < b.standard_error.d)
        THEN <<[level |-> "warning", msg |-> "highly suspicious"]>> ELSE <<>>)

\* The diagnostics of the constructor, in the order the code emits them.
StatsDiagnostics(b) ==
    (IF ~IsNumber(b.point_estimate)
     THEN <<[level |-> "error", msg |-> "No 'point_estimate' found"]>> ELSE <<>>)
    \o (IF ~IsNumber(b.standard_error)
        THEN <<[level |-> "error", msg |-> "No 'standard_error' found"]>> ELSE <<>>)
    \o (IF JsLt(b.point_estimate, Num(1)) \/ JsLt(b.standard_error, Num(1))
        THEN <<[level |-> "warning", msg |-> "highly suspicious"]>> ELSE <<>>)

\* StatsCI with the defaults of the bounds taken as 0 instead of the point estimate.
StatsCI_ZeroBounds(b) ==
    IF b.confidence_interval.present
    THEN b.confidence_interval
    ELSE [present |-> TRUE, lower_bound |-> Num(0),
          upper_bound |-> Num(0), confidence_level |-> Num(0)]

\* body.confidence_interval ?? {lower_bound: pointEstimate, upper_bound: pointEstimate,
\*                              confidence_level: 0.0}
StatsCI(b) ==
    IF b.confidence_interval.present
    THEN b.confidence_interval
    ELSE [present |-> TRUE, lower_bound |-> b.point_estimate,
          upper_bound |-> b.point_estimate, confidence_level |-> Num(0)]

\* The constructor with the standard error stored as the point estimate.
MeasurementStats_WrongField(name, b) ==
    LET CI == StatsCI(b)
    IN  [kind |-> name,
         pointEstimate |-> b.standard_error,
         standardError |-> b.standard_error,
         lowerBound |-> Coalesce(CI.lower_bound, b.point_estimate),
         upperBound |-> Coalesce(CI.upper_bound, b.point_estimate),
         confidenceLevel |-> Coalesce(CI.confidence_level, Num(0))]

\* new MeasurementStats(name, b): the fields of the object
MeasurementStats(name, b) ==
    LET CI == StatsCI(b)
    IN  [kind |-> name,
         pointEstimate |-> b.point_estimate,
         standardError |-> b.standard_error,
         lowerBound |-> Coalesce(CI.lower_bound, b.point_estimate),
         upperBound |-> Coalesce(CI.upper_bound, b.point_estimate),
         confidenceLevel |-> Coalesce(CI.confidence_level, Num(0))]

(***************************************************************************)
(* BenchmarkResult                                                         *)
(*                                                                         *)
(* A JSON benchmark record is [null, baseline, criterion_estimates_v1],    *)
(* the estimates [present, mean, median, std_dev], each of these a         *)
(* sub-record with a field present (FALSE: the key is missing).            *)
(* A constructor or function that can throw yields                         *)
(* [ok, value, error, log]: the value returned or the error thrown, and    *)
(* the diagnostics emitted on the way.                                     *)
(***************************************************************************)
Return(v, l) == [ok |-> TRUE, value |-> v, error |-> "", log |-> l]
Throw(e, l) == [ok |-> FALSE, value |-> None, error |-> e, log |-> l]

Diag(level, msg) == [level |-> level, msg |-> msg]

NotFound == "Benchmark data not found in benchmark object"

BenchmarkResult(name, o) ==
    LET est == o.criterion_estimates_v1
    IN  IF o.null
        THEN \* benchmark_obj.baseline on null: TypeError
             Throw("TypeError", <<Diag("error", "Received a null/undef object")>>)
        ELSE IF ~est.present
        THEN Throw(NotFound, <<Diag("error", "Criterion estimates not found")>>)
        ELSE IF ~est.mean.present
        THEN Throw(NotFound, <<Diag("error", "Mean was not found")>>)
        ELSE IF ~est.median.present
        THEN Throw(NotFound, StatsDiagnostics(est.mean)
                             \o <<Diag("error", "Median was not found")>>)
        ELSE IF ~est.std_dev.present
        THEN Throw(NotFound, StatsDiagnostics(est.mean) \o StatsDiagnostics(est.median)
                             \o <<Diag("error", "std_dev was not found")>>)
        ELSE Return([name |-> name,
                     baseline |-> IF o.baseline = "" THEN "unknown" ELSE o.baseline,
                     mean |-> MeasurementStats("mean", est.mean),
                     median |-> MeasurementStats("median", est.median),
                     std_dev |-> MeasurementStats("std_dev", est.std_dev)],
                    StatsDiagnostics(est.mean) \o StatsDiagnostics(est.median)
                    \o StatsDiagnostics(est.std_dev))

\* diffSignificant with the standard error of the mean used as the error bar.
diffSignificant_StdErr(this, other) ==
    LET myVal == this.mean.pointEstimate
        myErr == this.mean.standardError
        oVal == other.mean.pointEstimate
        oErr == other.mean.standardError
    IN  IF other.name # this.name THEN FALSE
        ELSE IF JsLt(myVal, oVal)
        THEN JsLt(JsAdd(myVal, myErr), oVal) \/ JsGt(JsSub(oVal, oErr), myVal)
        ELSE JsGt(JsSub(myVal, myErr), oVal) \/ JsLt(JsAdd(oVal, oErr), myVal)

\* diffSignificant with touching error bars counted as separated (<= for <).
diffSignificant_Touching(this, other) ==
    LET myVal == this.mean.pointEstimate
        myErr == this.std_dev.pointEstimate
        oVal == other.mean.pointEstimate
        oErr == other.std_dev.pointEstimate
    IN  IF other.name # this.name THEN FALSE
        ELSE IF JsLt(myVal, oVal)
        THEN JsLe(JsAdd(myVal, myErr), oVal) \/ JsLe(myVal, JsSub(oVal, oErr))
        ELSE JsLe(oVal, JsSub(myVal, myErr)) \/ JsLe(JsAdd(oVal, oErr), myVal)

\* diffSignificant with the error of this record alone.
diffSignificant_OwnError(this, other) ==
    LET myVal == this.mean.pointEstimate
        myErr == this.std_dev.pointEstimate
        oVal == other.mean.pointEstimate
    IN  IF other.name # this.name THEN FALSE
        ELSE IF JsLt(myVal, oVal)
        THEN JsLt(JsAdd(myVal, myErr), oVal)
        ELSE JsGt(JsSub(myVal, myErr), oVal)

\* diffSignificant with both error bars required to be cleared (&& for ||).
diffSignificant_Both(this, other) ==
    LET myVal == this.mean.pointEstimate
        myErr == this.std_dev.pointEstimate
        oVal == other.mean.pointEstimate
        oErr == other.std_dev.pointEstimate
    IN  IF other.name # this.name THEN FALSE
        ELSE IF JsLt(myVal, oVal)
        THEN JsLt(JsAdd(myVal, myErr), oVal) /\ JsGt(JsSub(oVal, oErr), myVal)
        ELSE JsGt(JsSub(myVal, myErr), oVal) /\ JsLt(JsAdd(oVal, oErr), myVal)

\* this.diffSignificant(other)
diffSignificant(this, other) ==
    LET myVal == this.mean.pointEstimate
        myErr == this.std_dev.pointEstimate
        oVal == other.mean.pointEstimate
        oErr == other.std_dev.pointEstimate
    IN  IF other.name # this.name THEN FALSE
        ELSE IF JsLt(myVal, oVal)
        THEN JsLt(JsAdd(myVal, myErr), oVal) \/ JsGt(JsSub(oVal, oErr), myVal)
        ELSE JsGt(JsSub(myVal, myErr), oVal) \/ JsLt(JsAdd(oVal, oErr), myVal)

\* the warning of diffSignificant
diffSignificantLog(this, other) ==
    IF other.name # this.name
    THEN <<Diag("warning", "Tried to compare names")>>
    ELSE <<>>

(***************************************************************************)
(* BenchmarkComparison                                                     *)
(***************************************************************************)
\* PctDiff computed from the medians instead of the means.
PctDiff_Median(base, delta) ==
    JsDiv(JsMul(Num(100), JsSub(delta.median.pointEstimate, base.median.pointEstimate)),
          base.median.pointEstimate)

\* (100 * (delta.mean.pointEstimate - base.mean.pointEstimate)) / base.mean.pointEstimate
PctDiff(base, delta) ==
    JsDiv(JsMul(Num(100), JsSub(delta.mean.pointEstimate, base.mean.pointEstimate)),
          base.mean.pointEstimate)

\* The constructor without the test of the names.
BenchmarkComparison_Unchecked(base, delta) ==
    Return([name |-> base.name,
            benchBase |-> base,
            benchDelta |-> delta,
            isSignificant |-> diffSignificant(base, delta),
            pctDiff |-> PctDiff(base, delta)],
           diffSignificantLog(base, delta))

BenchmarkComparison(base, delta) ==
    IF base.name # delta.name
    THEN Throw("Trying to compare benchmarks with different names", <<>>)
    ELSE Return([name |-> base.name,
                 benchBase |-> base,
                 benchDelta |-> delta,
                 isSignificant |-> diffSignificant(base, delta),
                 pctDiff |-> PctDiff(base, delta)],
                diffSignificantLog(base, delta))

(***************************************************************************)
(* resultsFromJSONString                                                   *)
(*                                                                         *)
(* The JSON text is modelled by what JSON.parse makes of it:               *)
(* [valid, null, hasBenchmarks, benchmarks], valid = FALSE for a text     *)
(* that is not JSON, null = TRUE for the JSON value null, benchmarks the   *)
(* entries <<[name, value], ...>> of the top-level benchmarks object in    *)
(* the order of Object.entries.                                            *)
(***************************************************************************)
\* The loop with a record that cannot be built skipped instead of rethrown.
RECURSIVE ParseEntries_Skip(_, _, _, _)
ParseEntries_Skip(entries, i, out, l) ==
    IF i > Len(entries) THEN Return(out, l)
    ELSE LET r == BenchmarkResult(entries[i].name, entries[i].value)
         IN  IF r.ok
             THEN ParseEntries_Skip(entries, i + 1, Append(out, r.value), l \o r.log)
             ELSE ParseEntries_Skip(entries, i + 1, out, l \o r.log)

\* for (const [name, value] of Object.entries(toplevel.benchmarks)) out.push(...)
RECURSIVE ParseEntries(_, _, _, _)
ParseEntries(entries, i, out, l) ==
    IF i > Len(entries) THEN Return(out, l)
    ELSE LET r == BenchmarkResult(entries[i].name, entries[i].value)
         IN  IF r.ok
             THEN ParseEntries(entries, i + 1, Append(out, r.value), l \o r.log)
             ELSE Throw(r.error, l \o r.log)

\* The function with the error of a failed parse swallowed: no result.
resultsFromJSONString_Swallow(doc) ==
    LET r == IF ~doc.valid THEN Throw("SyntaxError", <<>>)
             ELSE IF ~doc.hasBenchmarks THEN Throw("TypeError", <<>>)
             ELSE ParseEntries(doc.benchmarks, 1, <<>>, <<>>)
    IN  IF r.ok THEN r ELSE Return(<<>>, r.log)

\* resultsFromJSONString with an empty object taken for the benchmarks that
\* are missing.
resultsFromJSONString_EmptyList(doc) ==
    LET r == IF ~doc.valid THEN Throw("SyntaxError", <<>>)
             ELSE IF doc.null THEN Throw("TypeError", <<>>)
             ELSE IF ~doc.hasBenchmarks
             THEN Return(<<>>, <<Diag("console.error", "No 'benchmarks' key found")>>)
             ELSE ParseEntries(doc.benchmarks, 1, <<>>, <<>>)
    IN  IF r.ok THEN r
        ELSE Throw(r.error,
                   r.log \o <<Diag("error", "Exception while parsing JSON results")>>)

resultsFromJSONString(doc) ==
    LET r == IF ~doc.valid
             THEN \* JSON.parse throws
                  Throw("SyntaxError", <<>>)
             ELSE IF doc.null
             THEN \* toplevel.benchmarks, the read of a property of null, throws
                  Throw("TypeError", <<>>)
             ELSE IF ~doc.hasBenchmarks
             THEN \* Object.entries(undefined) throws
                  Throw("TypeError", <<Diag("console.error", "No 'benchmarks' key found")>>)
             ELSE ParseEntries(doc.benchmarks, 1, <<>>, <<>>)
    IN  IF r.ok THEN r
        ELSE Throw(r.error,
                   r.log \o <<Diag("error", "Exception while parsing JSON results")>>)

(***************************************************************************)
(* processResults                                                          *)
(*                                                                         *)
(* A Set or Map of JavaScript iterates in insertion order: a Set is a      *)
(* sequence without repetition here, and the Maps baseDict and deltaDict   *)
(* are read through Has and Get.                                           *)
(***************************************************************************)
Range(q) == {q[i] : i \in 1 .. Len(q)}

\* set.add(x)
SetAdd(q, x) == IF x \in Range(q) THEN q ELSE Append(q, x)

\* allTestNames after the forEach over list, starting from acc
RECURSIVE AddNames(_, _, _)
AddNames(list, i, acc) ==
    IF i > Len(list) THEN acc
    ELSE AddNames(list, i + 1, SetAdd(acc, list[i].name))

\* dict.get(name) != null, for the Map filled from list
Has(list, name) == \E i \in 1 .. Len(list) : list[i].name = name

\* dict.get(name) with the first set() of a key kept.
Get_First(list, name) ==
    LET first == CHOOSE i \in 1 .. Len(list) :
                     /\ list[i].name = name
                     /\ \A j \in 1 .. (i - 1) : list[j].name # name
    IN  list[first]

\* dict.get(name): a later set() of the same key replaces the earlier one
Get(list, name) ==
    LET last == CHOOSE i \in 1 .. Len(list) :
                    /\ list[i].name = name
                    /\ \A j \in (i + 1) .. Len(list) : list[j].name # name
    IN  list[last]

\* The branch of the loop body taken for name, with the two orphan sets exchanged.
Classify_Swapped(name, baseList, deltaList) ==
    IF Has(baseList, name) /\ Has(deltaList, name) THEN "compare"
    ELSE IF ~Has(baseList, name) THEN "inBaseOnly"
    ELSE IF ~Has(deltaList, name) THEN "inDeltaOnly"
    ELSE "unreachable"

\* The branch of the loop body taken for name.
Classify(name, baseList, deltaList) ==
    IF Has(baseList, name) /\ Has(deltaList, name) THEN "compare"
    ELSE IF ~Has(baseList, name) THEN "inDeltaOnly"
    ELSE IF ~Has(deltaList, name) THEN "inBaseOnly"
    ELSE "unreachable"

\* for (let name of allTestNames) { ... }, from the i-th name on; acc is
\* [comparisons, inBaseOnly, inDeltaOnly] so far
RECURSIVE ProcessLoop(_, _, _, _, _, _)
ProcessLoop(names, i, baseList, deltaList, acc, l) ==
    IF i > Len(names) THEN Return(acc, l)
    ELSE LET name == names[i]
             branch == Classify(name, baseList, deltaList)
         IN  CASE branch = "compare" ->
                    LET c == BenchmarkComparison(Get(baseList, name), Get(deltaList, name))
                    IN  IF c.ok
                        THEN ProcessLoop(names, i + 1, baseList, deltaList,
                                 [acc EXCEPT !.comparisons = Append(@, c.value)],
                                 l \o c.log)
                        ELSE Throw(c.error, l \o c.log)
               [] branch = "inDeltaOnly" ->
                    ProcessLoop(names, i + 1, baseList, deltaList,
                        [acc EXCEPT !.inDeltaOnly = SetAdd(@, name)], l)
               [] branch = "inBaseOnly" ->
                    ProcessLoop(names, i + 1, baseList, deltaList,
                        [acc EXCEPT !.inBaseOnly = SetAdd(@, name)], l)
               [] OTHER ->
                    ProcessLoop(names, i + 1, baseList, deltaList, acc,
                        l \o <<Diag("error", "Unreachable executed in processResults")>>)

\* processResults with the names of the changed list added to allTestNames first.
processResults_DeltaFirst(baseList, deltaList) ==
    LET allTestNames == AddNames(baseList, 1, AddNames(deltaList, 1, <<>>))
    IN  ProcessLoop(allTestNames, 1, baseList, deltaList,
            [comparisons |-> <<>>, inBaseOnly |-> <<>>, inDeltaOnly |-> <<>>], <<>>)

\* processResults(baseResults, deltaResults)
processResults(baseList, deltaList) ==
    LET allTestNames == AddNames(deltaList, 1, AddNames(baseList, 1, <<>>))
    IN  ProcessLoop(allTestNames, 1, baseList, deltaList,
            [comparisons |-> <<>>, inBaseOnly |-> <<>>, inDeltaOnly |-> <<>>], <<>>)

(***************************************************************************)
(* The report                                                              *)
(*                                                                         *)
(* A text is the sequence of its pieces: string concatenation is \o, and   *)
(* a number is turned into pieces by toFixed2 and MathRoundString.  The    *)
(* numbers that reach the report are the point estimates of records that   *)
(* hold them, and pctDiff.                                                 *)
(***************************************************************************)
Min(a, b) == IF a < b THEN a ELSE b

\* x.toFixed(2): the sign, the integer part and two decimals, the nearest
\* hundredth with a tie rounded away from zero
toFixed2(x) ==
    CASE x.t = "NaN" -> <<"NaN">>
      [] x.t = "Infinity" -> IF x.n > 0 THEN <<"Infinity">> ELSE <<"-Infinity">>
      [] OTHER ->
            LET h == (2 * 100 * Abs(x.n) + x.d) \div (2 * x.d)
            IN  (IF x.n < 0 THEN <<"-">> ELSE <<>>)
                \o <<ToString(h \div 100), ".", ToString((h % 100) \div 10),
                     ToString(h % 10)>>

\* Math.round(x).toString(): the nearest integer, a tie rounded up
MathRoundString(x) ==
    CASE x.t = "NaN" -> <<"NaN">>
      [] x.t = "Infinity" -> IF x.n > 0 THEN <<"Infinity">> ELSE <<"-Infinity">>
      [] OTHER -> <<ToString((2 * x.n + x.d) \div (2 * x.d))>>

\* toDisplay(x, u), u one of the units that displayUnits returns
toDisplay(x, u) ==
    CASE u = "ns" -> toFixed2(x)
      [] u = "us" -> toFixed2(JsDiv(x, Num(Thousand)))
      [] u = "ms" -> toFixed2(JsDiv(x, Num(Million)))
      [] u = "s" -> toFixed2(JsDiv(x, Num(Billion)))

\* array.join(sep)
RECURSIVE Join(_, _)
Join(q, sep) ==
    IF Len(q) = 0 THEN <<>>
    ELSE IF Len(q) = 1 THEN <<q[1]>>
    ELSE <<q[1], sep>> \o Join(Tail(q), sep)

\* enum ReportFields, and the order of the columns in runComparison
ReportFields == {"name", "deltaRes", "baseRes", "pctDiff"}
Order == <<"name", "deltaRes", "baseRes", "pctDiff">>

\* "mean +- std_dev unit" of one run, the unit chosen from the mean
ResultTerm(res) ==
    LET u == displayUnits(res.mean.pointEstimate)
    IN  toDisplay(res.mean.pointEstimate, u) \o <<" +- ">>
        \o toDisplay(res.std_dev.pointEstimate, u) \o <<" ", u>>

\* this.getMarkdownElement(ty, addBold)
getMarkdownElement(this, ty, addBold) ==
    LET term == CASE ty = "name" -> <<this.benchBase.name>>
                  [] ty = "deltaRes" -> ResultTerm(this.benchDelta)
                  [] ty = "baseRes" -> ResultTerm(this.benchBase)
                  [] ty = "pctDiff" -> MathRoundString(this.pctDiff)
    IN  IF addBold THEN <<"**">> \o term \o <<"**">> ELSE term

\* BoldField with the test of C13: the field of the greater mean.
BoldField_Slower(this, useBold) ==
    IF useBold
    THEN IF JsGt(this.benchDelta.mean.pointEstimate, this.benchBase.mean.pointEstimate)
         THEN "deltaRes" ELSE "baseRes"
    ELSE "null"

\* boldField of generateMarkdownTableRow, "null" when nothing is bold
BoldField(this, useBold) ==
    IF useBold
    THEN IF JsGt(this.pctDiff, Num(100)) THEN "deltaRes" ELSE "baseRes"
    ELSE "null"

\* this.generateMarkdownTableRow(columnNames, useBold)
RECURSIVE RowCells(_, _, _, _)
RowCells(this, columnNames, i, boldField) ==
    IF i > Len(columnNames) THEN <<>>
    ELSE <<" ">> \o getMarkdownElement(this, columnNames[i], columnNames[i] = boldField)
         \o <<" |">> \o RowCells(this, columnNames, i + 1, boldField)

generateMarkdownTableRow(this, columnNames, useBold) ==
    <<"|">> \o RowCells(this, columnNames, 1, BoldField(this, useBold))

\* genMarkdownHeader(order, branchName)
HeaderLabel(ty, branchName) ==
    CASE ty = "baseRes" -> <<branchName>>
      [] ty = "deltaRes" -> <<"PR">>
      [] ty = "name" -> <<"Test Name">>
      [] ty = "pctDiff" -> <<"% of ", branchName>>

RECURSIVE HeaderCells(_, _, _)
HeaderCells(order, i, branchName) ==
    IF i > Len(order) THEN <<>>
    ELSE <<" ">> \o HeaderLabel(order[i], branchName) \o <<" |">>
         \o HeaderCells(order, i + 1, branchName)

genMarkdownHeader(order, branchName) ==
    <<"|">> \o HeaderCells(order, 1, branchName) \o <<"\n">>
    \o <<"|">> \o [i \in 1 .. Len(order) |-> "---|"] \o <<"\n">>

\* The test of the loop of runComparison with every comparison given a row.
IsRow_Always(res) == TRUE

\* if (res.isSignificant): the comparison gets a row of the table
IsRow(res) == res.isSignificant

\* The loop of runComparison over results[0], from the i-th comparison on; acc is
\* [table, insignificant] so far.
RECURSIVE RenderRows(_, _, _)
RenderRows(cs, i, acc) ==
    IF i > Len(cs) THEN acc
    ELSE IF IsRow(cs[i])
    THEN RenderRows(cs, i + 1,
            [acc EXCEPT !.table = @ \o generateMarkdownTableRow(cs[i], Order, TRUE)
                                    \o <<"\n">>])
    ELSE RenderRows(cs, i + 1,
            [acc EXCEPT !.insignificant = Append(@, cs[i].name)])

\* otherResults with the two labels exchanged.
OtherResults_Swapped(res, branchName) ==
    (IF Len(res.inBaseOnly) > 0
     THEN <<"\n Tests only on PR: ">> \o Join(res.inBaseOnly, ", ")
     ELSE <<>>)
    \o (IF Len(res.inDeltaOnly) > 0
        THEN <<"\n Tests only on ", branchName, ": ">> \o Join(res.inDeltaOnly, ", ")
        ELSE <<>>)

\* otherResults: the benchmarks that are not in both runs
OtherResults(res, branchName) ==
    (IF Len(res.inBaseOnly) > 0
     THEN <<"\n Tests only on ", branchName, ": ">> \o Join(res.inBaseOnly, ", ")
     ELSE <<>>)
    \o (IF Len(res.inDeltaOnly) > 0
        THEN <<"\n Tests only on PR: ">> \o Join(res.inDeltaOnly, ", ")
        ELSE <<>>)

\* context.sha.slice(0, 7)
ShortSha(h) == SubSeq(h, 1, Min(7, Len(h)))

NoDifferenceLabel == "\n\nTests with no significant difference: "

\* the template string mdTable
Report(h, tbl, insignificantStr, other) ==
    <<"\n## Benchmark for ">> \o ShortSha(h)
    \o <<"\n<details>\n  <summary>Click to view benchmark</summary>\n\n">>
    \o tbl \o <<NoDifferenceLabel>> \o insignificantStr
    \o <<"\n\n">> \o other \o <<"\n</details>\n">>

\* runComparison(args) on the two exports that critcmp printed, with
\* context.sha = h: the value has the locals of the function, of which
\* [results[0], mdTable] is returned.  A local is named as the one element of
\* a set, x \in {e}, which has its value computed once.
ReportOf(b, c, r, a, h) ==
    LET acc == RenderRows(r.value.comparisons, 1,
                   [table |-> genMarkdownHeader(Order, a.branchName),
                    insignificant |-> <<>>])
        other == OtherResults(r.value, a.branchName)
    IN  Return([baseResults |-> b.value,
                changeResults |-> c.value,
                results |-> r.value,
                table |-> acc.table,
                insignificant |-> acc.insignificant,
                otherResults |-> other,
                mdTable |-> Report(h, acc.table, Join(acc.insignificant, ", "), other)],
               b.log \o c.log \o r.log)

PairAndReport(b, c, a, h) ==
    IF ~b.ok THEN Throw(b.error, b.log)
    ELSE IF ~c.ok THEN Throw(c.error, b.log \o c.log)
    ELSE CHOOSE out \in
            {IF r.ok THEN ReportOf(b, c, r, a, h)
                     ELSE Throw(r.error, b.log \o c.log \o r.log) :
                r \in {processResults(b.value, c.value)}} : TRUE

runComparison(doc1, doc2, a, h) ==
    CHOOSE out \in
        {PairAndReport(b, c, a, h) :
            b \in {resultsFromJSONString(doc1)},
            c \in {resultsFromJSONString(doc2)}} : TRUE

\* JSON.stringify of a number: NaN and the infinities are written as null
JsonNumber(x) == IF x.t = "number" THEN x ELSE [t |-> "null", n |-> 0, d |-> 1]

\* JSON.stringify(resultsObj), the comparisons with their fields; pctDiff is
\* the one number of a comparison that can be NaN or infinite
JSONStringify(cs) == [i \in 1 .. Len(cs) |-> [cs[i] EXCEPT !.pctDiff = JsonNumber(@)]]

(***************************************************************************)
(* Inputs                                                                  *)
(***************************************************************************)
Names == {"a", "b", "c"}

\* A sub-record with every key present.
SubRecord(pe, se) ==
    [present |-> TRUE, point_estimate |-> pe, standard_error |-> se,
     confidence_interval |-> NoCI]
NoSubRecord ==
    [present |-> FALSE, point_estimate |-> Undef, standard_error |-> Undef,
     confidence_interval |-> NoCI]

\* A well-formed benchmark record: mean m, median m + 1, std_dev e.
FullRecord(m, e) ==
    [null |-> FALSE, baseline |-> "base",
     criterion_estimates_v1 |->
        [present |-> TRUE,
         mean |-> SubRecord(Num(m), Num(1)),
         median |-> SubRecord(Num(m + 1), Num(1)),
         std_dev |-> SubRecord(Num(e), Num(1))]]

\* The spec's example (100 +- 5 against 120 +- 5) besides the small values.
SampleMeans == {100, 120}
SampleErrs == {5}
MeanValues == (-MaxMean .. MaxMean) \cup SampleMeans
ErrValues == (-1 .. MaxErr) \cup SampleErrs

\* The sub-records given to the MeasurementStats constructor.
StatValues == {Num(i) : i \in -1 .. MaxErr} \cup {Undef}
BoundValues == {Undef, Num(0), Num(MaxErr + 1)}
LevelValues == {Undef, Num(0), Ratio(19, 20)}
Intervals ==
    {NoCI} \cup [present : {TRUE}, lower_bound : BoundValues,
                 upper_bound : BoundValues, confidence_level : LevelValues]
Bodies ==
    [present : {TRUE}, point_estimate : StatValues, standard_error : StatValues,
     confidence_interval : Intervals]

\* The durations given to displayUnits.
Durations ==
    {a + o : a \in {0, Thousand, Million, Billion}, o \in -MaxOff .. MaxOff}

\* Benchmark records that the BenchmarkResult constructor rejects.
NoEstimates ==
    [present |-> FALSE, mean |-> NoSubRecord, median |-> NoSubRecord,
     std_dev |-> NoSubRecord]
NullRecord == [null |-> TRUE, baseline |-> "", criterion_estimates_v1 |-> NoEstimates]
MissingEstimates == [FullRecord(1, 1) EXCEPT !.criterion_estimates_v1 = NoEstimates]
MissingMean == [FullRecord(1, 1) EXCEPT !.criterion_estimates_v1.mean = NoSubRecord]
MissingMedian == [FullRecord(1, 1) EXCEPT !.criterion_estimates_v1.median = NoSubRecord]
MissingStdDev == [FullRecord(1, 1) EXCEPT !.criterion_estimates_v1.std_dev = NoSubRecord]
\* Benchmark records that it accepts although keys are missing.
NoBaseline == [FullRecord(1, 1) EXCEPT !.baseline = ""]
Degraded ==
    [FullRecord(1, 1) EXCEPT !.criterion_estimates_v1.mean.standard_error = Undef]

\* The record lacks its estimates or one of mean, median and std_dev (or is null).
Malformed(rec) ==
    \/ rec.null
    \/ ~rec.criterion_estimates_v1.present
    \/ ~rec.criterion_estimates_v1.mean.present
    \/ ~rec.criterion_estimates_v1.median.present
    \/ ~rec.criterion_estimates_v1.std_dev.present

\* The entries of a benchmarks object: at most MaxBench distinct keys.
EntrySeqs(recs) ==
    UNION {{q \in [1 .. k -> [name : Names, value : recs]] :
                \A i, j \in 1 .. k : i # j => q[i].name # q[j].name} :
           k \in 0 .. MaxBench}

InvalidJSON == [valid |-> FALSE, null |-> FALSE, hasBenchmarks |-> FALSE, benchmarks |-> <<>>]
NoBenchmarksKey == [valid |-> TRUE, null |-> FALSE, hasBenchmarks |-> FALSE, benchmarks |-> <<>>]
\* The JSON text null.
NullJSON == [valid |-> TRUE, null |-> TRUE, hasBenchmarks |-> FALSE, benchmarks |-> <<>>]
DocsOf(recs) ==
    {InvalidJSON, NoBenchmarksKey}
    \cup {[valid |-> TRUE, null |-> FALSE, hasBenchmarks |-> TRUE, benchmarks |-> q] :
             q \in EntrySeqs(recs)}

\* The exports given to resultsFromJSONString alone.
ParseRecords ==
    {NullRecord, MissingEstimates, MissingMean, MissingMedian, MissingStdDev,
     NoBaseline, Degraded}
    \cup {FullRecord(m, 1) : m \in 1 .. MaxMean}
ParseDocs == DocsOf(ParseRecords) \cup {NullJSON}

\* The exports of the two runs of runComparison.
RunRecords ==
    {FullRecord(m, e) : m \in SampleMeans, e \in SampleErrs} \cup {MissingStdDev}
RunDocs == DocsOf(RunRecords)

\* The output of cargo criterion --message-format json: one JSON object per
\* line, each with a reason; a benchmark-complete message has the id and the
\* mean of a benchmark.
Reasons == {"benchmark-complete", "group-complete"}
Messages == {[reason |-> r, id |-> n, mean |-> Num(m)] :
                r \in Reasons, n \in Names, m \in SampleMeans}
RECURSIVE MessageSeqs(_)
MessageSeqs(k) ==
    IF k = 0 THEN {<<>>}
    ELSE MessageSeqs(k - 1)
         \cup {Append(q, msg) : q \in {x \in MessageSeqs(k - 1) : Len(x) = k - 1},
                                msg \in Messages}

\* What JSON.parse makes of a text of such lines: the text of one line is one
\* object, which has no benchmarks key; an empty text and a text with a second
\* object after the first are not JSON.
MessagesDoc(lines) ==
    [valid |-> Len(lines) = 1, null |-> FALSE, hasBenchmarks |-> FALSE, benchmarks |-> <<>>,
     lines |-> lines]
MessageDocs == {MessagesDoc(q) : q \in MessageSeqs(MaxBench)}

\* ActionArguments as parseArgs builds them, and context.sha
BranchNames == {"main", "trunk"}
ActionArgs(branchName, doComment) ==
    [token |-> "token", workDir |-> ".", benchName |-> "",
     branchName |-> branchName, doFetch |-> TRUE, doClean |-> FALSE,
     doComment |-> doComment]
RenderArgs == {ActionArgs(b, TRUE) : b \in BranchNames}
RunArgs == {ActionArgs(b, c) : b \in BranchNames, c \in BOOLEAN}
\* The arguments of run of main.ts: the setup with and without git fetch and
\* cargo clean.
MainArgs ==
    {[a EXCEPT !.doFetch = f, !.doClean = c] : a \in RunArgs, f \in BOOLEAN, c \in BOOLEAN}

\* The exports that run gives to runComparison: a text that is not JSON, a JSON
\* text without benchmarks, and exports of a, or of a and b.
Export(entries) ==
    [valid |-> TRUE, null |-> FALSE, hasBenchmarks |-> TRUE, benchmarks |-> entries]
RunnerDocs ==
    {InvalidJSON, NoBenchmarksKey}
    \cup {Export(<<[name |-> "a", value |-> r]>>) : r \in RunRecords}
    \cup {Export(<<[name |-> "a", value |-> r], [name |-> "b", value |-> FullRecord(100, 5)]>>) :
            r \in RunRecords}

\* The texts that cargo criterion prints for run of main.ts, and the reports
\* that genBenchmarkResultTable makes of them.
MainStdOuts ==
    {MessagesDoc(<<>>),
     MessagesDoc(<<[reason |-> "benchmark-complete", id |-> "a", mean |-> Num(100)]>>),
     MessagesDoc(<<[reason |-> "benchmark-complete", id |-> "a", mean |-> Num(120)],
                   [reason |-> "group-complete", id |-> "b", mean |-> Num(100)]>>)}
ReportTexts == {<<"## Benchmark", n>> : n \in Names}

\* What a call of exec.exec can do: resolve with the exit code 0, resolve with
\* another exit code, or reject.
ExecOutcomes == {"zero", "nonzero", "throws"}
ExecError == "The process failed"

Shas == {<<"0", "1", "2", "3", "4", "5", "6", "7", "8", "9">>}

(***************************************************************************)
(* Specification SpecStats: new MeasurementStats('mean', body)             *)
(***************************************************************************)
InitStats ==
    /\ pc = "MeasurementStats"
    /\ log = <<>>
    /\ body \in Bodies
    /\ stats = None
    /\ benchBase = None /\ benchDelta = None /\ comparison = None
    /\ s = None /\ unit = None
    /\ result1 = None /\ result2 = None
    /\ baseResults = None /\ changeResults = None /\ results = None
    /\ error = ""
    /\ args = None /\ sha = <<>> /\ NoReport /\ NoRun

ConstructStats ==
    /\ pc = "MeasurementStats"
    /\ stats' = MeasurementStats("mean", body)
    /\ log' = log \o StatsDiagnostics(body)
    /\ pc' = "done"
    /\ UNCHANGED <<body, benchBase, benchDelta, comparison, s, unit,
                   result1, result2, baseResults, changeResults, results, error,
                   renderVars, runVars>>

NextStats == ConstructStats

SpecStats == InitStats /\ [][NextStats]_vars

(***************************************************************************)
(* Specification SpecCompare: new BenchmarkComparison(base, delta) on two  *)
(* results built by the BenchmarkResult constructor                        *)
(***************************************************************************)
CompareNames == {"a", "b"}
CompareResults ==
    {BenchmarkResult(nm, FullRecord(m, e)).value :
        nm \in CompareNames, m \in MeanValues, e \in ErrValues}

InitCompare ==
    /\ pc = "BenchmarkComparison"
    /\ log = <<>>
    /\ benchBase \in CompareResults
    /\ benchDelta \in CompareResults
    /\ comparison = None
    /\ body = None /\ stats = None
    /\ s = None /\ unit = None
    /\ result1 = None /\ result2 = None
    /\ baseResults = None /\ changeResults = None /\ results = None
    /\ error = ""
    /\ args = None /\ sha = <<>> /\ NoReport /\ NoRun

ConstructComparison ==
    /\ pc = "BenchmarkComparison"
    /\ comparison' = BenchmarkComparison(benchBase, benchDelta)
    /\ log' = log \o comparison'.log
    /\ pc' = IF comparison'.ok THEN "done" ELSE "failed"
    /\ error' = comparison'.error
    /\ UNCHANGED <<body, stats, benchBase, benchDelta, s, unit,
                   result1, result2, baseResults, changeResults, results,
                   renderVars, runVars>>

\* processResults([base], [delta]): the same two records paired by their names
PairResults ==
    /\ results = None
    /\ results' = processResults(<<benchBase>>, <<benchDelta>>)
    /\ log' = log \o results'.log
    /\ UNCHANGED <<pc, body, stats, benchBase, benchDelta, comparison, s, unit,
                   result1, result2, baseResults, changeResults, error,
                   renderVars, runVars>>

\* the body of the loop of runComparison for the comparison built: its row is
\* added to the table, or its name to insignificant
RenderComparison ==
    /\ pc = "done" /\ comparison.ok
    /\ table = <<>> /\ insignificant = <<>>
    /\ \E acc \in {RenderRows(<<comparison.value>>, 1,
                                [table |-> <<>>, insignificant |-> <<>>])} :
          table' = acc.table /\ insignificant' = acc.insignificant
    /\ UNCHANGED <<pc, log, unitVars, parseVars, error, args, sha,
                   otherResults, mdTable, runVars>>

NextCompare ==
    \/ ConstructComparison
    \/ PairResults
    \/ RenderComparison

SpecCompare == InitCompare /\ [][NextCompare]_vars

(***************************************************************************)
(* Specification SpecUnits: displayUnits(s)                                *)
(***************************************************************************)
InitUnits ==
    /\ pc = "displayUnits"
    /\ log = <<>>
    /\ s \in Durations
    /\ unit = ""
    /\ body = None /\ stats = None
    /\ benchBase = None /\ benchDelta = None /\ comparison = None
    /\ result1 = None /\ result2 = None
    /\ baseResults = None /\ changeResults = None /\ results = None
    /\ error = ""
    /\ args = None /\ sha = <<>> /\ NoReport /\ NoRun

DisplayUnits ==
    /\ pc = "displayUnits"
    /\ unit' = displayUnits(Num(s))
    /\ pc' = "done"
    /\ UNCHANGED <<log, body, stats, benchBase, benchDelta, comparison, s,
                   result1, result2, baseResults, changeResults, results, error,
                   renderVars, runVars>>

NextUnits == DisplayUnits

SpecUnits == InitUnits /\ [][NextUnits]_vars

(***************************************************************************)
(* Properties of new BenchmarkComparison(base, delta), under SpecCompare   *)
(***************************************************************************)
\* The two means and the two std-dev point estimates of the arguments, as integers.
mBase == benchBase.mean.pointEstimate.n
eBase == benchBase.std_dev.pointEstimate.n
mDelta == benchDelta.mean.pointEstimate.n
eDelta == benchDelta.std_dev.pointEstimate.n

Built == pc = "done" /\ comparison.ok

\* The rule of the specification, on the integers.
SpecRule ==
    IF mDelta < mBase
    THEN (mDelta + eDelta < mBase) \/ (mBase - eBase > mDelta)
    ELSE (mDelta - eDelta > mBase) \/ (mBase + eBase < mDelta)

\* C2: for every base mean, base std-dev, changed mean and changed std-dev (equal
\* means and negative values included) the isSignificant flag of the comparison
\* is the specification's rule: if mDelta < mBase then mDelta + eDelta < mBase or
\* mBase - eBase > mDelta, else mDelta - eDelta > mBase or mBase + eBase < mDelta.
C2_SignificanceRule == Built => (comparison.value.isSignificant <=> SpecRule)

\* C2 witness: a comparison of equal means with a negative error has been built.
C2_Witness == Built /\ mBase = mDelta /\ eBase < 0 /\ comparison.value.isSignificant

\* C3: with a non-zero base mean, pctDiff is 100 * (mDelta - mBase) / mBase, from
\* the means; base 100 +- 5 against changed 120 +- 5 is significant with pctDiff 20.
C3_PctDiff ==
    (Built /\ mBase # 0) =>
        /\ comparison.value.pctDiff.t = "number"
        /\ comparison.value.pctDiff.d > 0
        /\ comparison.value.pctDiff.n * mBase
              = 100 * (mDelta - mBase) * comparison.value.pctDiff.d
        /\ (mBase = 100 /\ eBase = 5 /\ mDelta = 120 /\ eDelta = 5) =>
              /\ comparison.value.isSignificant
              /\ comparison.value.pctDiff = Num(20)

\* C3 witness: the comparison of 100 +- 5 with 120 +- 5 has been built.
C3_Witness ==
    Built /\ mBase = 100 /\ eBase = 5 /\ mDelta = 120 /\ eDelta = 5
          /\ comparison.value.pctDiff = Num(20)

\* C4: a base mean of zero makes the construction fail with UndefinedRatio, and
\* no comparison is built whose pctDiff is NaN or an infinity.
C4_UndefinedRatio ==
    /\ (pc # "BenchmarkComparison" /\ benchBase.name = benchDelta.name /\ mBase = 0) =>
          (~comparison.ok /\ comparison.error = "UndefinedRatio")
    /\ Built => comparison.value.pctDiff.t = "number"

\* C15: every BenchmarkComparison that exists has benchBase.name, benchDelta.name
\* and name equal: the construction from two records of different names fails
\* with an error, and every comparison that processResults produces pairs two
\* records of one name.
C15_SameName ==
    /\ Built => /\ comparison.value.benchBase.name = comparison.value.name
                /\ comparison.value.benchDelta.name = comparison.value.name
    /\ (pc # "BenchmarkComparison" /\ benchBase.name # benchDelta.name) =>
          /\ pc = "failed"
          /\ ~comparison.ok
          /\ comparison.value = None
          /\ error = "Trying to compare benchmarks with different names"
    /\ results # None =>
          /\ results.ok
          /\ Len(results.value.comparisons)
                = IF benchBase.name = benchDelta.name THEN 1 ELSE 0
          /\ \A i \in 1 .. Len(results.value.comparisons) :
                LET c == results.value.comparisons[i]
                IN  c.benchBase.name = c.name /\ c.benchDelta.name = c.name

\* C15 witness: the construction from a record named a and a record named b has
\* failed, and processResults has paired neither: a is only in the base run, b
\* only in the changed run.
C15_Witness ==
    /\ pc = "failed"
    /\ benchBase.name = "a" /\ benchDelta.name = "b"
    /\ ~comparison.ok
    /\ results # None
    /\ results.value.comparisons = <<>>
    /\ results.value.inBaseOnly = <<"a">>
    /\ results.value.inDeltaOnly = <<"b">>

\* C16: when two records of different names are given to be paired, the
\* mismatch is logged and the pair is skipped: no error stops the run, and no
\* verdict and no pctDiff is computed for the pair.
C16_MismatchLoggedAndSkipped ==
    (pc # "BenchmarkComparison" /\ benchBase.name # benchDelta.name) =>
        /\ \E i \in 1 .. Len(log) : log[i].level \in {"warning", "error"}
        /\ pc # "failed" /\ error = ""
        /\ comparison.value = None

\* C5 as stated: equal means and equal std-devs are never significant.
C5_IdenticalNotSignificant ==
    (Built /\ mBase = mDelta /\ eBase = eDelta) => ~comparison.value.isSignificant

\* C5 amended: equal means and equal std-devs that are not negative are never
\* significant.
C5_IdenticalNonNegative ==
    (Built /\ mBase = mDelta /\ eBase = eDelta /\ eBase >= 0) =>
        ~comparison.value.isSignificant

\* C5 witness: two identical records with a std-dev of zero have been compared.
C5_Witness ==
    Built /\ mBase = mDelta /\ eBase = eDelta /\ eBase = 0
          /\ ~comparison.value.isSignificant

\* C25: the verdict depends only on the distance between the means and the
\* smaller of the two errors: isSignificant holds exactly when
\* |mDelta - mBase| > min(eBase, eDelta); with errors that are not negative a
\* significant comparison has mBase # mDelta.
C25_DistanceAgainstSmallerError ==
    Built =>
        /\ comparison.value.isSignificant <=> (Abs(mDelta - mBase) > Min(eBase, eDelta))
        /\ (eBase >= 0 /\ eDelta >= 0 /\ comparison.value.isSignificant) => mBase # mDelta

\* C25 witness: means 0 and 1 with errors 0 and 5 have been compared: the
\* distance 1 is above the smaller error only, and the comparison is significant.
C25_Witness ==
    Built /\ mBase = 0 /\ mDelta = 1 /\ eBase = 0 /\ eDelta = 5
          /\ comparison.value.isSignificant

\* C26: the verdict is symmetric in the two runs: for the two records of a built
\* comparison, base.diffSignificant(delta), which the comparison holds as
\* isSignificant, equals delta.diffSignificant(base), and the comparison built
\* with the two runs swapped has the same isSignificant.
C26_Symmetric ==
    Built =>
        /\ comparison.value.isSignificant = diffSignificant(benchDelta, benchBase)
        /\ BenchmarkComparison(benchDelta, benchBase).ok
        /\ BenchmarkComparison(benchDelta, benchBase).value.isSignificant
              = comparison.value.isSignificant

\* C26 witness: means 1 and 0 with errors 5 and 0 have been compared: only the
\* error of the changed run is cleared, and the comparison is significant.
C26_Witness ==
    Built /\ mBase = 1 /\ mDelta = 0 /\ eBase = 5 /\ eDelta = 0
          /\ comparison.value.isSignificant
          /\ diffSignificant(benchDelta, benchBase)

(***************************************************************************)
(* Properties of new MeasurementStats('mean', body), under SpecStats       *)
(***************************************************************************)
\* C8: a sub-record without confidence_interval gives lowerBound = upperBound =
\* pointEstimate and confidenceLevel = 0; with the interval present, a missing
\* lower_bound, upper_bound or confidence_level takes that default and the fields
\* that are there are kept.
C8_IntervalDefaults ==
    pc = "done" =>
        LET ci == body.confidence_interval
        IN  /\ ~ci.present =>
                  /\ stats.lowerBound = stats.pointEstimate
                  /\ stats.upperBound = stats.pointEstimate
                  /\ stats.confidenceLevel = Num(0)
            /\ ci.present =>
                  /\ stats.lowerBound = IF ci.lower_bound = Undef
                                        THEN stats.pointEstimate ELSE ci.lower_bound
                  /\ stats.upperBound = IF ci.upper_bound = Undef
                                        THEN stats.pointEstimate ELSE ci.upper_bound
                  /\ stats.confidenceLevel = IF ci.confidence_level = Undef
                                             THEN Num(0) ELSE ci.confidence_level

\* C8 witness: an object was built from a sub-record with a point estimate of 2
\* and no confidence_interval.
C8_Witness ==
    /\ pc = "done"
    /\ ~body.confidence_interval.present
    /\ body.point_estimate = Num(2)
    /\ stats.lowerBound = Num(2) /\ stats.upperBound = Num(2)

\* C9: without standard_error the construction succeeds, a diagnostic is emitted
\* and standardError is the default 0.0.
C9_StandardErrorDefault ==
    (pc = "done" /\ body.standard_error = Undef) =>
        /\ \E i \in 1 .. Len(log) : log[i].msg = "No 'standard_error' found"
        /\ stats.standardError = Num(0)

\* The 'highly suspicious' warning is among the diagnostics of the construction.
Warned == \E i \in 1 .. Len(log) : log[i] = [level |-> "warning", msg |-> "highly suspicious"]

\* The absolute value of v is a number below 1.
AbsBelowOne(v) == v.t = "number" /\ Abs(v.n) < v.d

\* v is a number below 1.
BelowOne(v) == v.t = "number" /\ v.n < v.d

\* C24 as stated: the warning is emitted exactly when the absolute value of
\* point_estimate or of standard_error is below 1, and the object is then built
\* with both values stored unchanged.
C24_WarnOnSmallAbs ==
    pc = "done" =>
        /\ Warned <=> (AbsBelowOne(body.point_estimate) \/ AbsBelowOne(body.standard_error))
        /\ Warned => /\ stats.pointEstimate = body.point_estimate
                     /\ stats.standardError = body.standard_error

\* C24 amended: the warning is emitted exactly when point_estimate or
\* standard_error is a number below 1, negative values of any size included, and
\* the object is then built with both values stored unchanged.
C24_WarnBelowOne ==
    pc = "done" =>
        /\ Warned <=> (BelowOne(body.point_estimate) \/ BelowOne(body.standard_error))
        /\ Warned => /\ stats # None
                     /\ stats.pointEstimate = body.point_estimate
                     /\ stats.standardError = body.standard_error

\* C24 witness: an object was built from a point estimate of 0 and a standard
\* error of 2, with the warning and with both values kept.
C24_Witness ==
    /\ pc = "done"
    /\ body.point_estimate = Num(0) /\ body.standard_error = Num(2)
    /\ Warned
    /\ stats.pointEstimate = Num(0) /\ stats.standardError = Num(2)

(***************************************************************************)
(* Properties of displayUnits(s), under SpecUnits                          *)
(***************************************************************************)
\* C10: displayUnits(s) is ns when s < 1000 (zero and negative s included), us
\* when 1000 <= s < 1e6, ms when 1e6 <= s < 1e9 and s otherwise.
C10_UnitThresholds ==
    pc = "done" =>
        unit = IF s < Thousand THEN "ns"
               ELSE IF s < Million THEN "us"
               ELSE IF s < Billion THEN "ms"
               ELSE "s"

(***************************************************************************)
(* Specification Spec: runComparison, from the two exports of critcmp to   *)
(* the result of processResults                                            *)
(***************************************************************************)
Init ==
    /\ pc = "execBase"
    /\ log = <<>>
    /\ result1 = None /\ result2 = None
    /\ baseResults = None /\ changeResults = None /\ results = None
    /\ error = ""
    /\ body = None /\ stats = None
    /\ benchBase = None /\ benchDelta = None /\ comparison = None
    /\ s = None /\ unit = None
    /\ args \in RenderArgs /\ sha \in Shas
    /\ NoReport /\ NoRun

\* result1 = await execCapture('critcmp', ['--export', 'base'], args.workDir)
ExportBase ==
    /\ pc = "execBase"
    /\ \E doc \in RunDocs : result1' = doc
    /\ pc' = "execChanges"
    /\ UNCHANGED <<log, body, stats, benchBase, benchDelta, comparison, s, unit,
                   result2, baseResults, changeResults, results, error,
                   renderVars, runVars>>

\* result2 = await execCapture('critcmp', ['--export', 'changes'], args.workDir)
ExportChanges ==
    /\ pc = "execChanges"
    /\ \E doc \in RunDocs : result2' = doc
    /\ pc' = "parseBase"
    /\ UNCHANGED <<log, body, stats, benchBase, benchDelta, comparison, s, unit,
                   result1, baseResults, changeResults, results, error,
                   renderVars, runVars>>

\* baseResults = resultsFromJSONString(result1.stdOut)
ParseBase ==
    /\ pc = "parseBase"
    /\ LET r == resultsFromJSONString(result1)
       IN  /\ log' = log \o r.log
           /\ IF r.ok
              THEN baseResults' = r.value /\ pc' = "parseChanges" /\ error' = error
              ELSE baseResults' = baseResults /\ pc' = "failed" /\ error' = r.error
    /\ UNCHANGED <<body, stats, benchBase, benchDelta, comparison, s, unit,
                   result1, result2, changeResults, results,
                   renderVars, runVars>>

\* changeResults = resultsFromJSONString(result2.stdOut)
ParseChanges ==
    /\ pc = "parseChanges"
    /\ LET r == resultsFromJSONString(result2)
       IN  /\ log' = log \o r.log
           /\ IF r.ok
              THEN changeResults' = r.value /\ pc' = "processResults" /\ error' = error
              ELSE changeResults' = changeResults /\ pc' = "failed" /\ error' = r.error
    /\ UNCHANGED <<body, stats, benchBase, benchDelta, comparison, s, unit,
                   result1, result2, baseResults, results,
                   renderVars, runVars>>

\* results = processResults(baseResults, changeResults)
ProcessResults ==
    /\ pc = "processResults"
    /\ LET r == processResults(baseResults, changeResults)
       IN  /\ log' = log \o r.log
           /\ IF r.ok
              THEN results' = r.value /\ pc' = "render" /\ error' = error
              ELSE results' = results /\ pc' = "failed" /\ error' = r.error
    /\ UNCHANGED <<body, stats, benchBase, benchDelta, comparison, s, unit,
                   result1, result2, baseResults, changeResults,
                   renderVars, runVars>>

\* the rest of runComparison: the table, the two lists and the report
Render ==
    /\ pc = "render"
    /\ LET acc == RenderRows(results.comparisons, 1,
                      [table |-> genMarkdownHeader(Order, args.branchName),
                       insignificant |-> <<>>])
           other == OtherResults(results, args.branchName)
       IN  /\ table' = acc.table
           /\ insignificant' = acc.insignificant
           /\ otherResults' = other
           /\ mdTable' = Report(sha, acc.table, Join(acc.insignificant, ", "), other)
    /\ pc' = "done"
    /\ UNCHANGED <<log, body, stats, benchBase, benchDelta, comparison, s, unit,
                   result1, result2, baseResults, changeResults, results, error,
                   args, sha, runVars>>

Next ==
    \/ ExportBase
    \/ ExportChanges
    \/ ParseBase
    \/ ParseChanges
    \/ ProcessResults
    \/ Render

Spec == Init /\ [][Next]_vars

(***************************************************************************)
(* Specification SpecParse: resultsFromJSONString on one export            *)
(***************************************************************************)
InitParse ==
    /\ pc = "parseBase"
    /\ log = <<>>
    /\ result1 \in ParseDocs
    /\ result2 = None
    /\ baseResults = None /\ changeResults = None /\ results = None
    /\ error = ""
    /\ args = None /\ sha = <<>> /\ NoReport /\ NoRun
    /\ body = None /\ stats = None
    /\ benchBase = None /\ benchDelta = None /\ comparison = None
    /\ s = None /\ unit = None

NextParse == ParseBase

SpecParse == InitParse /\ [][NextParse]_vars

(***************************************************************************)
(* Properties of processResults, under Spec                                *)
(***************************************************************************)
NameSet(list) == {list[i].name : i \in 1 .. Len(list)}

\* C1: processResults partitions the union of the names: one comparison for each
\* name in both lists and for no other, inBaseOnly the names of the base list
\* alone, inDeltaOnly the names of the changed list alone; the three groups are
\* pairwise disjoint and cover every name.
C1_Partition ==
    pc = "render" =>
        LET B == NameSet(baseResults)
            D == NameSet(changeResults)
            C == NameSet(results.comparisons)
            BO == Range(results.inBaseOnly)
            DO == Range(results.inDeltaOnly)
        IN  /\ C = B \cap D
            /\ Len(results.comparisons) = Cardinality(B \cap D)
            /\ BO = B \ D
            /\ Len(results.inBaseOnly) = Cardinality(B \ D)
            /\ DO = D \ B
            /\ Len(results.inDeltaOnly) = Cardinality(D \ B)
            /\ C \cap BO = {} /\ C \cap DO = {} /\ BO \cap DO = {}
            /\ C \cup BO \cup DO = B \cup D

\* C1 witness: pair({a, b}, {b, c}) gave one comparison, for b, with a only in
\* the base run and c only in the changed run.
C1_Witness ==
    /\ pc = "render"
    /\ NameSet(baseResults) = {"a", "b"}
    /\ NameSet(changeResults) = {"b", "c"}
    /\ Len(results.comparisons) = 1
    /\ results.comparisons[1].name = "b"
    /\ results.inBaseOnly = <<"a">>
    /\ results.inDeltaOnly = <<"c">>

(***************************************************************************)
(* Specification SpecPair: processResults(baseResults, changeResults) on   *)
(* two lists of records in which a name may be repeated                    *)
(***************************************************************************)
PairNames == {"a", "b"}
PairRecords ==
    {BenchmarkResult(nm, FullRecord(m, 0)).value : nm \in PairNames, m \in 1 .. 2}
\* The lists of at most n records.
PairLists(n) == UNION {[1 .. k -> PairRecords] : k \in 0 .. n}

InitPair ==
    /\ pc = "processResults"
    /\ log = <<>>
    /\ baseResults \in PairLists(MaxList) /\ changeResults \in PairLists(MaxList - 1)
    /\ results = None
    /\ result1 = None /\ result2 = None
    /\ body = None /\ stats = None
    /\ benchBase = None /\ benchDelta = None /\ comparison = None
    /\ s = None /\ unit = None
    /\ error = ""
    /\ args = None /\ sha = <<>> /\ NoReport /\ NoRun

\* results = processResults(baseResults, changeResults)
ProcessLists ==
    /\ pc = "processResults"
    /\ \E r \in {processResults(baseResults, changeResults)} :
          /\ results' = r
          /\ log' = log \o r.log
          /\ pc' = IF r.ok THEN "done" ELSE "failed"
          /\ error' = r.error
    /\ UNCHANGED <<unitVars, result1, result2, baseResults, changeResults,
                   renderVars, runVars>>

\* the loop of runComparison over results[0]: the rows of the table and the
\* names without significant difference
RenderLists ==
    /\ pc = "done"
    /\ \E acc \in {RenderRows(results.value.comparisons, 1,
                                [table |-> <<>>, insignificant |-> <<>>])} :
          table' = acc.table /\ insignificant' = acc.insignificant
    /\ pc' = "rendered"
    /\ UNCHANGED <<log, unitVars, parseVars, error, args, sha, otherResults, mdTable,
                   runVars>>

NextPair == ProcessLists \/ RenderLists

SpecPair == InitPair /\ [][NextPair]_vars

(***************************************************************************)
(* Properties of processResults on lists with repeated names, under        *)
(* SpecPair                                                                *)
(***************************************************************************)
\* No element occurs twice in q.
Distinct(q) == \A i, j \in 1 .. Len(q) : i # j => q[i] # q[j]

\* r is the last record of list that has the name of r.
IsLastOf(r, list) ==
    \E i \in 1 .. Len(list) :
        /\ list[i] = r
        /\ \A j \in (i + 1) .. Len(list) : list[j].name # r.name

\* C27: with names repeated inside a list, processResults still returns at most
\* one comparison for a name, every name is in exactly one of comparisons,
\* inBaseOnly and inDeltaOnly, and a comparison is built from the last record
\* of its name in each list.
C27_RepeatedNames ==
    pc # "processResults" =>
        /\ results.ok
        /\ LET cs == results.value.comparisons
               C == NameSet(cs)
               BO == Range(results.value.inBaseOnly)
               DO == Range(results.value.inDeltaOnly)
           IN  /\ Distinct([i \in 1 .. Len(cs) |-> cs[i].name])
               /\ Distinct(results.value.inBaseOnly)
               /\ Distinct(results.value.inDeltaOnly)
               /\ C \cap BO = {} /\ C \cap DO = {} /\ BO \cap DO = {}
               /\ C \cup BO \cup DO = NameSet(baseResults) \cup NameSet(changeResults)
               /\ \A i \in 1 .. Len(cs) :
                     /\ IsLastOf(cs[i].benchBase, baseResults)
                     /\ IsLastOf(cs[i].benchDelta, changeResults)

\* C27 witness: the base list holds a with mean 1, b, and a again with mean 2,
\* the changed list holds a once: the one comparison is for a, built from the
\* base record of mean 2, and b is only in the base run.
C27_Witness ==
    /\ pc = "rendered"
    /\ Len(baseResults) = 3 /\ Len(changeResults) = 1
    /\ baseResults[1].name = "a" /\ baseResults[1].mean.pointEstimate = Num(1)
    /\ baseResults[2].name = "b"
    /\ baseResults[3].name = "a" /\ baseResults[3].mean.pointEstimate = Num(2)
    /\ changeResults[1].name = "a"
    /\ Len(results.value.comparisons) = 1
    /\ results.value.comparisons[1].benchBase.mean.pointEstimate = Num(2)
    /\ results.value.inBaseOnly = <<"b">>
    /\ results.value.inDeltaOnly = <<>>

(***************************************************************************)
(* Specification SpecArgs: parseArgs()                                     *)
(*                                                                         *)
(* The inputs of the action and the environment are the record body:       *)
(* each input as core.getInput or core.getBooleanInput returns it, and     *)
(* GITHUB_BASE_REF as [set, value], set = FALSE for a variable that is not *)
(* in the environment.                                                     *)
(***************************************************************************)
BranchInputs == {"", "main", "trunk", "release"}
BaseRefs ==
    {[set |-> FALSE, value |-> ""], [set |-> TRUE, value |-> ""],
     [set |-> TRUE, value |-> "develop"], [set |-> TRUE, value |-> "trunk"]}
ActionInputs ==
    [token : {"token"}, workDir : {"."}, gitBranchName : BranchInputs,
     cargoBenchName : {""}, doFetch : BOOLEAN, doClean : BOOLEAN, doComment : BOOLEAN,
     GITHUB_BASE_REF : BaseRefs]

\* parseArgs with the input taken as it is.
parseArgs_NoFallback(in) ==
    Return([token |-> in.token, workDir |-> in.workDir, benchName |-> in.cargoBenchName,
            branchName |-> in.gitBranchName, doFetch |-> in.doFetch,
            doClean |-> in.doClean, doComment |-> in.doComment], <<>>)

parseArgs(in) ==
    LET envBaseRef == in.GITHUB_BASE_REF
        fallback == ~envBaseRef.set \/ envBaseRef.value = ""
        branchName == IF in.gitBranchName = ""
                      THEN IF fallback THEN "main" ELSE envBaseRef.value
                      ELSE in.gitBranchName
    IN  Return([token |-> in.token, workDir |-> in.workDir, benchName |-> in.cargoBenchName,
                branchName |-> branchName, doFetch |-> in.doFetch,
                doClean |-> in.doClean, doComment |-> in.doComment],
               IF in.gitBranchName = "" /\ fallback
               THEN <<Diag("warning", "Could not find branchName from args or env")>>
               ELSE <<>>)

InitArgs ==
    /\ pc = "parseArgs"
    /\ log = <<>>
    /\ body \in ActionInputs
    /\ args = None /\ sha = <<>>
    /\ result1 = None /\ result2 = None
    /\ baseResults = None /\ changeResults = None /\ results = None
    /\ error = ""
    /\ NoReport /\ NoRun
    /\ stats = None
    /\ benchBase = None /\ benchDelta = None /\ comparison = None
    /\ s = None /\ unit = None

ParseArgs ==
    /\ pc = "parseArgs"
    /\ args' = parseArgs(body).value
    /\ log' = log \o parseArgs(body).log
    /\ pc' = "done"
    /\ UNCHANGED <<body, stats, benchBase, benchDelta, comparison, s, unit,
                   parseVars, error, sha, reportVars, runVars>>

NextArgs == ParseArgs

SpecArgs == InitArgs /\ [][NextArgs]_vars

\* C22: the base branch is the input gitBranchName when that is not empty,
\* otherwise GITHUB_BASE_REF when that is set and not empty, otherwise main;
\* it is never the empty string.
C22_BranchName ==
    pc = "done" =>
        /\ args.branchName # ""
        /\ body.gitBranchName # "" => args.branchName = body.gitBranchName
        /\ (body.gitBranchName = "" /\ body.GITHUB_BASE_REF.set
                /\ body.GITHUB_BASE_REF.value # "")
              => args.branchName = body.GITHUB_BASE_REF.value
        /\ (body.gitBranchName = ""
                /\ (~body.GITHUB_BASE_REF.set \/ body.GITHUB_BASE_REF.value = ""))
              => args.branchName = "main"

\* C22 witness: no input and an empty GITHUB_BASE_REF gave main, with the warning.
C22_Witness ==
    /\ pc = "done"
    /\ body.gitBranchName = ""
    /\ body.GITHUB_BASE_REF = [set |-> TRUE, value |-> ""]
    /\ args.branchName = "main"
    /\ Len(log) = 1

(***************************************************************************)
(* Specification SpecMessages: resultsFromJSONString(s) on the output of   *)
(* cargo criterion --message-format json                                   *)
(***************************************************************************)
InitMessages ==
    /\ pc = "parseBase"
    /\ log = <<>>
    /\ result1 \in MessageDocs
    /\ result2 = None
    /\ baseResults = None /\ changeResults = None /\ results = None
    /\ error = ""
    /\ args = None /\ sha = <<>> /\ NoReport /\ NoRun
    /\ body = None /\ stats = None
    /\ benchBase = None /\ benchDelta = None /\ comparison = None
    /\ s = None /\ unit = None

NextMessages == ParseBase

SpecMessages == InitMessages /\ [][NextMessages]_vars

\* the benchmark-complete messages of a text, in order
RECURSIVE Completed(_)
Completed(lines) ==
    IF lines = <<>> THEN <<>>
    ELSE (IF Head(lines).reason = "benchmark-complete" THEN <<Head(lines)>> ELSE <<>>)
         \o Completed(Tail(lines))

\* C17: the parser accepts a newline-delimited sequence of JSON objects: each
\* object whose reason is benchmark-complete gives one result, and an object
\* with another reason is skipped without an error.
C17_AcceptsMessages ==
    pc # "parseBase" =>
        /\ pc # "failed" /\ error = ""
        /\ baseResults # None
        /\ Len(baseResults) = Len(Completed(result1.lines))
        /\ \A i \in 1 .. Len(baseResults) :
              /\ baseResults[i].name = Completed(result1.lines)[i].id
              /\ baseResults[i].mean.pointEstimate = Completed(result1.lines)[i].mean

(***************************************************************************)
(* Specification SpecRun: run() of the action, as action.yml has it        *)
(*                                                                         *)
(* One action for each await of run and the code that follows it up to     *)
(* the next await.  An error thrown inside the try block is caught at the  *)
(* end of run, which calls core.setFailed with its message.                *)
(***************************************************************************)

InitRun ==
    /\ pc = "setup"
    /\ log = <<>>
    /\ args \in RunArgs /\ sha \in Shas
    /\ result1 = None /\ result2 = None
    /\ baseResults = None /\ changeResults = None /\ results = None
    /\ error = ""
    /\ NoReport /\ NoRun
    /\ body = None /\ stats = None
    /\ benchBase = None /\ benchDelta = None /\ comparison = None
    /\ s = None /\ unit = None

\* catch (error) { if (error instanceof Error) core.setFailed(error.message) }
Fail(message) ==
    /\ failed' = Append(failed, message)
    /\ error' = message
    /\ pc' = "end"

\* the try block goes on
Go(next) ==
    /\ failed' = failed
    /\ error' = error
    /\ pc' = next

\* the commands of runSetup, in order
SetupCommands(install, a) ==
    <<install>>
    \o (IF a.doFetch THEN <<<<"git fetch">>>> ELSE <<>>)
    \o (IF a.doClean THEN <<<<"cargo clean">>>> ELSE <<>>)

\* runSetup with a command that does not exit with 0 taken as an error of the run.
SetupStep_Fatal(install, next) ==
    /\ pc = "setup"
    /\ \E k \in 1 .. Len(SetupCommands(install, args)), o \in ExecOutcomes :
          /\ k < Len(SetupCommands(install, args)) => o # "zero"
          /\ cmds' = cmds \o SubSeq(SetupCommands(install, args), 1, k)
          /\ codes' = codes \o [i \in 1 .. k |-> IF i < k THEN "zero" ELSE o]
          /\ CASE o = "zero" -> Go(next) /\ log' = log
               [] o = "nonzero" ->
                    Fail("Setup failed") /\ log' = Append(log, Diag("error", "Command failed"))
               [] o = "throws" -> Fail(ExecError) /\ log' = log
    /\ UNCHANGED <<unitVars, parseVars, reportVars, args, sha,
                   outputs, comments, printed>>

\* await runSetup(args.doFetch, args.doClean): the commands are tried in order
\* up to the first that does not exit with 0; tryExec logs that and runSetup
\* returns false, which run does not read
SetupStep(install, next) ==
    /\ pc = "setup"
    /\ \E k \in 1 .. Len(SetupCommands(install, args)), o \in ExecOutcomes :
          /\ k < Len(SetupCommands(install, args)) => o # "zero"
          /\ cmds' = cmds \o SubSeq(SetupCommands(install, args), 1, k)
          /\ codes' = codes \o [i \in 1 .. k |-> IF i < k THEN "zero" ELSE o]
          /\ CASE o = "zero" -> Go(next) /\ log' = log
               [] o = "nonzero" ->
                    Go(next) /\ log' = Append(log, Diag("error", "Command failed"))
               [] o = "throws" -> Fail(ExecError) /\ log' = log
    /\ UNCHANGED <<unitVars, parseVars, reportVars, args, sha,
                   outputs, comments, printed>>

RunSetup == SetupStep(<<"cargo", "install", "critcmp">>, "benchChanges")

\* rc = await runBench(args, baselineName, options); console.debug(rc)
BenchStep(at, baselineName, next) ==
    /\ pc = at
    /\ cmds' = Append(cmds, <<"cargo", "bench", "--save-baseline", baselineName>>)
    /\ \E o \in ExecOutcomes :
          /\ codes' = Append(codes, o)
          /\ IF o = "throws"
             THEN Fail(ExecError) /\ log' = log
             ELSE Go(next)
                  /\ log' = Append(log, Diag("console.debug", "Benchmark command returned"))
    /\ UNCHANGED <<unitVars, parseVars, reportVars, args, sha,
                   outputs, comments, printed>>

BenchChanges == BenchStep("benchChanges", "changes", "checkout")

\* gitRC = await exec.exec('git', ['checkout', args.branchName])
Checkout ==
    /\ pc = "checkout"
    /\ cmds' = Append(cmds, <<"git", "checkout", args.branchName>>)
    /\ \E o \in ExecOutcomes :
          /\ codes' = Append(codes, o)
          /\ CASE o = "zero" -> Go("benchBase") /\ log' = log
               [] o = "nonzero" ->
                    /\ Fail("Git checkout failed")
                    /\ log' = Append(log, Diag("error", "Git checkout failed! Bailing out."))
               [] o = "throws" -> Fail(ExecError) /\ log' = log
    /\ UNCHANGED <<unitVars, parseVars, reportVars, args, sha,
                   outputs, comments, printed>>

BenchBase == BenchStep("benchBase", "base", "compare")

\* compareResults = await runComparison(args)
Compare ==
    /\ pc = "compare"
    /\ \/ \E doc1, doc2 \in RunnerDocs :
            \E r \in {runComparison(doc1, doc2, args, sha)} :
                /\ cmds' = cmds \o <<<<"critcmp", "--export", "base">>,
                                     <<"critcmp", "--export", "changes">>>>
                /\ \E o1, o2 \in {"zero", "nonzero"} : codes' = codes \o <<o1, o2>>
                /\ result1' = doc1 /\ result2' = doc2
                /\ log' = log \o r.log
                /\ IF r.ok
                   THEN /\ Go("setOutputs")
                        /\ baseResults' = r.value.baseResults
                        /\ changeResults' = r.value.changeResults
                        /\ results' = r.value.results
                        /\ table' = r.value.table
                        /\ insignificant' = r.value.insignificant
                        /\ otherResults' = r.value.otherResults
                        /\ mdTable' = r.value.mdTable
                   ELSE /\ Fail(r.error)
                        /\ UNCHANGED <<baseResults, changeResults, results, reportVars>>
       \/ \E k \in 1 .. 2 :
            /\ cmds' = cmds \o SubSeq(<<<<"critcmp", "--export", "base">>,
                                        <<"critcmp", "--export", "changes">>>>, 1, k)
            /\ \E o1 \in {"zero", "nonzero"} :
                  codes' = codes \o SubSeq(<<o1, "throws">>, 3 - k, 2)
            /\ Fail(ExecError)
            /\ UNCHANGED <<log, parseVars, reportVars>>
    /\ UNCHANGED <<unitVars, args, sha, outputs, comments, printed>>

\* core.setOutput('results_markdown', tableStr)
\* core.setOutput('results_json', JSON.stringify(resultsObj))
SetOutputs ==
    /\ pc = "setOutputs"
    /\ outputs' = outputs \o
          <<[name |-> "results_markdown", value |-> mdTable],
            [name |-> "results_json", value |-> JSONStringify(results.comparisons)]>>
    /\ pc' = IF args.doComment THEN "comment" ELSE "end"
    /\ UNCHANGED <<log, unitVars, parseVars, reportVars, args, sha, error,
                   failed, comments, printed, cmds, codes>>

\* postComment that lets the error of createComment out.
PostCommentFailure_Rethrow(text) ==
    /\ Fail("HttpError")
    /\ UNCHANGED <<log, printed>>

\* the catch block of postComment: a warning, and the text and the error on the
\* console
PostCommentFailure(text) ==
    /\ log' = Append(log, Diag("warning", "Failed to post comment"))
    /\ printed' = printed \o <<text, <<"HttpError">>>>
    /\ pc' = "end"
    /\ UNCHANGED <<failed, error>>

\* await postComment(args.token, tableStr): createComment resolves, and the
\* comment is on the pull request, or rejects
PostComment ==
    /\ pc = "comment"
    /\ \/ /\ comments' = Append(comments, [body |-> mdTable])
          /\ pc' = "end"
          /\ UNCHANGED <<log, printed, failed, error>>
       \/ /\ PostCommentFailure(mdTable)
          /\ comments' = comments
    /\ UNCHANGED <<unitVars, parseVars, reportVars, args, sha, outputs, cmds, codes>>

NextRun ==
    \/ RunSetup
    \/ BenchChanges
    \/ Checkout
    \/ BenchBase
    \/ Compare
    \/ SetOutputs
    \/ PostComment

SpecRun == InitRun /\ [][NextRun]_vars

(***************************************************************************)
(* Specification SpecMain: run() of src/main.ts                            *)
(*                                                                         *)
(* checkExitStatus and genBenchmarkResultTable are imported by main.ts and *)
(* defined in no file of the source: checkExitStatus throws on an exit     *)
(* code that is not 0, and genBenchmarkResultTable either returns a report *)
(* or throws.                                                              *)
(***************************************************************************)
InitMain ==
    /\ pc = "setup"
    /\ log = <<>>
    /\ args \in MainArgs /\ sha \in Shas
    /\ result1 = None /\ result2 = None
    /\ baseResults = None /\ changeResults = None /\ results = None
    /\ error = ""
    /\ NoReport /\ NoRun
    /\ body = None /\ stats = None
    /\ benchBase = None /\ benchDelta = None /\ comparison = None
    /\ s = None /\ unit = None

MainSetup == SetupStep(<<"cargo", "install", "cargo-criterion">>, "checkoutBase")

\* checkExitStatus(rc, what) after a command that did not reject: an exit code
\* that is not 0 is an error
checkExitStatus(o, next) ==
    IF o = "nonzero" THEN Fail("Exit status") ELSE Go(next)

\* new CommandResult(rc, output, error), of which run reads exitCode and stdOut
CommandResult(o, d) == [exitCode |-> IF o = "zero" THEN 0 ELSE 1, stdOut |-> d]

\* rc = await exec.exec('git', ['checkout', ref]); checkExitStatus(rc, 'git checkout')
CheckoutStep(at, ref, next) ==
    /\ pc = at
    /\ cmds' = Append(cmds, <<"git", "checkout", ref>>)
    /\ \E o \in ExecOutcomes :
          /\ codes' = Append(codes, o)
          /\ IF o = "throws" THEN Fail(ExecError) ELSE checkExitStatus(o, next)
    /\ UNCHANGED <<log, unitVars, parseVars, reportVars, args, sha,
                   outputs, comments, printed>>

\* the command of runBench
CriterionCommand(a) ==
    <<"cargo", "criterion">>
    \o (IF a.benchName # "" THEN <<"--bench", a.benchName>> ELSE <<"--benches">>)
    \o <<"--message-format", "json">>

CheckoutBase == CheckoutStep("checkoutBase", args.branchName, "criterionBase")

\* The step with the exit code of the benchmark not looked at.
CriterionBase_Unchecked ==
    /\ pc = "criterionBase"
    /\ cmds' = Append(cmds, CriterionCommand(args))
    /\ \E o \in ExecOutcomes :
          /\ codes' = Append(codes, o)
          /\ Go("checkoutPR")
          /\ \E d \in MainStdOuts : result1' = CommandResult(o, d)
    /\ UNCHANGED <<log, unitVars, result2, baseResults, changeResults, results,
                   reportVars, args, sha, outputs, comments, printed>>

\* baseBenchRes = await runBench(args); checkExitStatus(baseBenchRes.exitCode, ...)
CriterionBase ==
    /\ pc = "criterionBase"
    /\ cmds' = Append(cmds, CriterionCommand(args))
    /\ \E o \in ExecOutcomes :
          /\ codes' = Append(codes, o)
          /\ IF o = "throws"
             THEN Fail(ExecError) /\ result1' = result1
             ELSE /\ checkExitStatus(o, "checkoutPR")
                  /\ \E d \in MainStdOuts : result1' = CommandResult(o, d)
    /\ UNCHANGED <<log, unitVars, result2, baseResults, changeResults, results,
                   reportVars, args, sha, outputs, comments, printed>>

CheckoutPR == CheckoutStep("checkoutPR", sha, "criterionDelta")

\* deltaBenchRes = await runBench(args); checkExitStatus(deltaBenchRes.exitCode, ...)
CriterionDelta ==
    /\ pc = "criterionDelta"
    /\ cmds' = Append(cmds, CriterionCommand(args))
    /\ \E o \in ExecOutcomes :
          /\ codes' = Append(codes, o)
          /\ IF o = "throws"
             THEN Fail(ExecError) /\ result2' = result2
             ELSE /\ checkExitStatus(o, "genTable")
                  /\ \E d \in MainStdOuts : result2' = CommandResult(o, d)
    /\ UNCHANGED <<log, unitVars, result1, baseResults, changeResults, results,
                   reportVars, args, sha, outputs, comments, printed>>

\* compareResults = await genBenchmarkResultTable(deltaBenchRes.stdOut)
GenBenchmarkResultTable ==
    /\ pc = "genTable"
    /\ \/ \E text \in ReportTexts : mdTable' = text /\ Go("setOutput")
       \/ mdTable' = mdTable /\ Fail("genBenchmarkResultTable")
    /\ UNCHANGED <<log, unitVars, parseVars, table, insignificant, otherResults,
                   args, sha, outputs, comments, printed, cmds, codes>>

\* core.setOutput('results_markdown', compareResults)
MainSetOutput ==
    /\ pc = "setOutput"
    /\ outputs' = Append(outputs, [name |-> "results_markdown", value |-> mdTable])
    /\ pc' = IF args.doComment THEN "comment" ELSE "end"
    /\ UNCHANGED <<log, unitVars, parseVars, reportVars, args, sha, error,
                   failed, comments, printed, cmds, codes>>

NextMain ==
    \/ MainSetup
    \/ CheckoutBase
    \/ CriterionBase
    \/ CheckoutPR
    \/ CriterionDelta
    \/ GenBenchmarkResultTable
    \/ MainSetOutput
    \/ PostComment

SpecMain == InitMain /\ [][NextMain]_vars

(***************************************************************************)
(* Properties of the report, under Spec                                    *)
(*                                                                         *)
(* The report is read back from its pieces: the table is what precedes the *)
(* label of the no-difference list, that list runs from its label to the   *)
(* blank line after it, and the orphan lists are what follows.  A          *)
(* benchmark name is a piece of its own, and no other piece is in Names.   *)
(***************************************************************************)
Rendered == pc = "done"
Count(text, x) == Cardinality({i \in DOMAIN text : text[i] = x})
IndexOf(text, x) == CHOOSE i \in DOMAIN text : text[i] = x /\ \A j \in 1 .. i - 1 : text[j] # x
TablePart(text) == SubSeq(text, 1, IndexOf(text, NoDifferenceLabel) - 1)
AfterLabel(text) == SubSeq(text, IndexOf(text, NoDifferenceLabel) + 1, Len(text))
NoDifferencePart(text) == SubSeq(AfterLabel(text), 1, IndexOf(AfterLabel(text), "\n\n") - 1)
OrphanPart(text) ==
    SubSeq(AfterLabel(text), IndexOf(AfterLabel(text), "\n\n") + 1, Len(AfterLabel(text)))

\* the names of the rows of a table: each row starts a line with "|", " ", name
RowNames(text) ==
    {text[i + 2] : i \in {j \in 1 .. Len(text) - 2 :
                            /\ text[j] = "|" /\ text[j + 1] = " "
                            /\ text[j + 2] \in Names
                            /\ (j = 1 \/ text[j - 1] = "\n")}}

\* the names of the comma-separated list that starts at piece i of a text
RECURSIVE ListFrom(_, _)
ListFrom(text, i) ==
    IF i > Len(text) THEN <<>>
    ELSE IF text[i] \in Names THEN <<text[i]>> \o ListFrom(text, i + 1)
    ELSE IF text[i] = ", " THEN ListFrom(text, i + 1)
    ELSE <<>>

\* the names listed under a label, the label given as its pieces; no name when
\* the label is not in the text
Labelled(text, label) ==
    LET at == {i \in 1 .. Len(text) - Len(label) + 1 :
                  SubSeq(text, i, i + Len(label) - 1) = label}
    IN  IF at = {} THEN <<>>
        ELSE ListFrom(text, (CHOOSE i \in at : TRUE) + Len(label))

BaseLabel == <<"\n Tests only on ", args.branchName, ": ">>
PRLabel == <<"\n Tests only on PR: ">>

\* C11: in the report every compared name appears in exactly one place: in a
\* row of the table if and only if its comparison is significant, otherwise
\* in the one comma-separated list of the tests with no significant
\* difference; no compared name is left out or appears twice.
C11_RowIffSignificant ==
    Rendered =>
        /\ Count(mdTable, NoDifferenceLabel) = 1
        /\ NoDifferencePart(mdTable) = Join(ListFrom(NoDifferencePart(mdTable), 1), ", ")
        /\ \A i \in 1 .. Len(results.comparisons) :
              LET c == results.comparisons[i]
              IN  /\ c.name \in RowNames(TablePart(mdTable)) <=> c.isSignificant
                  /\ Count(TablePart(mdTable), c.name)
                        = IF c.isSignificant THEN 1 ELSE 0
                  /\ Count(NoDifferencePart(mdTable), c.name)
                        = IF c.isSignificant THEN 0 ELSE 1
                  /\ Count(mdTable, c.name) = 1

\* C11 witness: a report of two comparisons, the first significant and in a
\* row, the second not significant and in the list.
C11_Witness ==
    /\ Rendered
    /\ Len(results.comparisons) = 2
    /\ results.comparisons[1].isSignificant
    /\ ~results.comparisons[2].isSignificant
    /\ RowNames(TablePart(mdTable)) = {results.comparisons[1].name}
    /\ NoDifferencePart(mdTable) = <<results.comparisons[2].name>>

\* C12: a name that is in one run only is never compared and is neither in
\* the table nor in the no-difference list; the names of the base run alone
\* are listed under a label that names the base branch, the names of the
\* changed run alone under a label of their own that says PR, and no name is
\* in both of these lists.
C12_Orphans ==
    Rendered =>
        LET baseOnly == NameSet(baseResults) \ NameSet(changeResults)
            deltaOnly == NameSet(changeResults) \ NameSet(baseResults)
            underBase == Labelled(OrphanPart(mdTable), BaseLabel)
            underPR == Labelled(OrphanPart(mdTable), PRLabel)
        IN  /\ \A n \in baseOnly \cup deltaOnly :
                  /\ n \notin NameSet(results.comparisons)
                  /\ Count(TablePart(mdTable), n) = 0
                  /\ Count(NoDifferencePart(mdTable), n) = 0
                  /\ Count(mdTable, n) = 1
            /\ Range(underBase) = baseOnly /\ Len(underBase) = Cardinality(baseOnly)
            /\ Range(underPR) = deltaOnly /\ Len(underPR) = Cardinality(deltaOnly)
            /\ Range(underBase) \cap Range(underPR) = {}

\* C12 witness: a report of the runs {a, b} and {b, c}: a is listed under the
\* base branch, c under PR, and only b is compared.
C12_Witness ==
    /\ Rendered
    /\ NameSet(baseResults) = {"a", "b"}
    /\ NameSet(changeResults) = {"b", "c"}
    /\ NameSet(results.comparisons) = {"b"}
    /\ Labelled(OrphanPart(mdTable), BaseLabel) = <<"a">>
    /\ Labelled(OrphanPart(mdTable), PRLabel) = <<"c">>

\* the row of a name in a table, from its "|" to the end of its line
RowOf(text, n) ==
    LET j == CHOOSE k \in 1 .. Len(text) - 2 :
                text[k] = "|" /\ text[k + 1] = " " /\ text[k + 2] = n
        e == CHOOSE k \in j .. Len(text) :
                text[k] = "\n" /\ \A l \in j .. k - 1 : text[l] # "\n"
    IN  SubSeq(text, j, e - 1)

\* the fields of the cells of a row that open with the bold mark; a cell ends
\* with " |", so the cell of piece p is one more than the ends before it
BoldFields(row) ==
    {Order[1 + Count(SubSeq(row, 1, p - 1), " |")] :
        p \in {q \in 2 .. Len(row) : row[q] = "**" /\ row[q - 1] = " "}}

\* C13: in the row of a significant comparison the bold result is the one of
\* the slower measurement: the changed run's when the changed mean is greater
\* than the base mean, the base run's when the base mean is greater.
C13_BoldIsSlower ==
    Rendered =>
        \A i \in 1 .. Len(results.comparisons) :
            LET c == results.comparisons[i]
                bold == BoldFields(RowOf(TablePart(mdTable), c.name))
            IN  c.isSignificant =>
                  /\ JsGt(c.benchDelta.mean.pointEstimate, c.benchBase.mean.pointEstimate)
                        => bold = {"deltaRes"}
                  /\ JsGt(c.benchBase.mean.pointEstimate, c.benchDelta.mean.pointEstimate)
                        => bold = {"baseRes"}

FirstIndex(list, n) ==
    CHOOSE i \in 1 .. Len(list) :
        list[i].name = n /\ \A j \in 1 .. (i - 1) : list[j].name # n

\* the names of q are in the order of their first appearance in list
InOrderOf(q, list) ==
    \A i, j \in 1 .. Len(q) : i < j => FirstIndex(list, q[i]) < FirstIndex(list, q[j])

\* the names of the rows of a table, in the order of the rows
RECURSIVE RowSeqFrom(_, _)
RowSeqFrom(text, j) ==
    IF j > Len(text) - 2 THEN <<>>
    ELSE IF /\ text[j] = "|" /\ text[j + 1] = " " /\ text[j + 2] \in Names
            /\ (j = 1 \/ text[j - 1] = "\n")
    THEN <<text[j + 2]>> \o RowSeqFrom(text, j + 1)
    ELSE RowSeqFrom(text, j + 1)

\* the names of the comparisons of processResults, in their order
ComparisonNames ==
    [i \in 1 .. Len(results.value.comparisons) |-> results.value.comparisons[i].name]

\* the names of cs for which significant(c) holds, in the order of cs
RECURSIVE NamesWhere(_, _, _)
NamesWhere(cs, i, significant) ==
    IF i > Len(cs) THEN <<>>
    ELSE (IF cs[i].isSignificant = significant THEN <<cs[i].name>> ELSE <<>>)
         \o NamesWhere(cs, i + 1, significant)

\* C28: the comparisons of processResults are in the order in which their names
\* first appear in the base list, inBaseOnly in the order of the base list and
\* inDeltaOnly in the order of the changed list; the rows of the table and the
\* names of the no-significant-difference list are the comparisons in that
\* same relative order.
C28_OrderOfFirstAppearance ==
    /\ pc \in {"done", "rendered"} =>
          /\ InOrderOf(ComparisonNames, baseResults)
          /\ InOrderOf(results.value.inBaseOnly, baseResults)
          /\ InOrderOf(results.value.inDeltaOnly, changeResults)
    /\ pc = "rendered" =>
          /\ RowSeqFrom(table, 1) = NamesWhere(results.value.comparisons, 1, TRUE)
          /\ insignificant = NamesWhere(results.value.comparisons, 1, FALSE)
          /\ InOrderOf(RowSeqFrom(table, 1), baseResults)
          /\ InOrderOf(insignificant, baseResults)

\* C28 witness: the base list names b then a, the changed list a then b, both
\* with a different mean: the comparisons and the rows are b then a.
C28_Witness ==
    /\ pc = "rendered"
    /\ [i \in 1 .. Len(baseResults) |-> baseResults[i].name] = <<"b", "a">>
    /\ [i \in 1 .. Len(changeResults) |-> changeResults[i].name] = <<"a", "b">>
    /\ ComparisonNames = <<"b", "a">>
    /\ RowSeqFrom(table, 1) = <<"b", "a">>
    /\ insignificant = <<>>

(***************************************************************************)
(* Properties of run, under SpecRun                                        *)
(***************************************************************************)
\* the text is not JSON, or has no benchmarks, or a record of it lacks its
\* estimates or one of mean, median and std_dev
ParseFails(doc) ==
    \/ ~doc.valid
    \/ ~doc.hasBenchmarks
    \/ \E i \in 1 .. Len(doc.benchmarks) : Malformed(doc.benchmarks[i].value)

\* the message of the error that the parse of such a text throws
ParseMessage(doc) ==
    IF ~doc.valid THEN "SyntaxError"
    ELSE IF ~doc.hasBenchmarks THEN "TypeError"
    ELSE IF \E i \in 1 .. Len(doc.benchmarks) : doc.benchmarks[i].value.null
    THEN "TypeError"
    ELSE NotFound

Compared == result1 # None /\ result2 # None
NoRepeat(q) == \A i, j \in 1 .. Len(q) : i # j => q[i] # q[j]
OutputNames == {outputs[i].name : i \in 1 .. Len(outputs)}

\* C18: when the parse of the JSON of either run fails, the failure reaches run:
\* the action is marked failed with the message of the error, results_markdown
\* is never set, no comment is posted, and no command is run a second time.
C18_ParseFailureBubbles ==
    (Compared /\ (ParseFails(result1) \/ ParseFails(result2))) =>
        /\ pc = "end"
        /\ failed = <<ParseMessage(IF ParseFails(result1) THEN result1 ELSE result2)>>
        /\ "results_markdown" \notin OutputNames
        /\ outputs = <<>>
        /\ comments = <<>>
        /\ NoRepeat(cmds)
        /\ Count(cmds, <<"critcmp", "--export", "base">>) = 1
        /\ Count(cmds, <<"critcmp", "--export", "changes">>) = 1

\* C18 witness: the base export was parsed, the export of the changes has a
\* record without std_dev, and the run has ended failed.
C18_Witness ==
    /\ pc = "end"
    /\ Compared
    /\ ~ParseFails(result1)
    /\ result2 = Export(<<[name |-> "a", value |-> MissingStdDev]>>)
    /\ failed = <<NotFound>>
    /\ outputs = <<>>

(***************************************************************************)
(* Properties of run of src/main.ts, under SpecMain                        *)
(***************************************************************************)
\* the value that an output was last set to
Output(name) ==
    LET at == {i \in 1 .. Len(outputs) : outputs[i].name = name}
    IN  outputs[CHOOSE i \in at : \A j \in at : j <= i].value

\* run has ended after a call of postComment that left no comment
PostFailed ==
    /\ pc = "end"
    /\ args.doComment
    /\ "results_markdown" \in OutputNames
    /\ comments = <<>>

\* C19: a failure of the call that posts the comment is not fatal: the text of
\* the report is printed instead, the action is not marked failed, and the
\* output results_markdown keeps the value that it was set to before.
C19_PostFailureNotFatal ==
    PostFailed =>
        /\ failed = <<>> /\ error = ""
        /\ \E i \in 1 .. Len(printed) : printed[i] = mdTable
        /\ outputs = <<[name |-> "results_markdown", value |-> mdTable]>>
        /\ mdTable \in ReportTexts

\* C19 witness: the report of a was set as output, the post of the comment
\* failed, and the run ended with the report on the console and no failure.
C19_Witness ==
    /\ PostFailed
    /\ mdTable = <<"## Benchmark", "a">>
    /\ Output("results_markdown") = mdTable
    /\ printed[1] = mdTable
    /\ failed = <<>>
    /\ \E i \in 1 .. Len(log) : log[i] = Diag("warning", "Failed to post comment")

\* C20: in a run that reaches the report, results_markdown and results_json
\* are set to the report whether or not doComment is true, and a comment is
\* posted if and only if doComment is true, after the outputs were set and
\* with the text of results_markdown.
C20_OutputsThenComment ==
    /\ (pc = "end" /\ mdTable # <<>>) =>
          /\ "results_markdown" \in OutputNames
          /\ Output("results_markdown") = mdTable
          /\ "results_json" \in OutputNames
          /\ comments # <<>> <=> args.doComment
    /\ comments # <<>> =>
          /\ "results_markdown" \in OutputNames
          /\ "results_json" \in OutputNames
          /\ comments = <<[body |-> Output("results_markdown")]>>

\* the commands of run after those of runSetup, and how they ended
MainInstall == <<"cargo", "install", "cargo-criterion">>
SetupDone == Cardinality({i \in 1 .. Len(cmds) : cmds[i] \in Range(SetupCommands(MainInstall, args))})
Steps == SubSeq(cmds, SetupDone + 1, Len(cmds))
StepCodes == SubSeq(codes, SetupDone + 1, Len(codes))
StepOrder ==
    <<<<"git", "checkout", args.branchName>>, CriterionCommand(args),
      <<"git", "checkout", sha>>, CriterionCommand(args)>>

C29_SetupFailureNotFatal ==
    /\ SubSeq(cmds, 1, SetupDone) = SubSeq(SetupCommands(MainInstall, args), 1, SetupDone)
    /\ \A i \in 1 .. SetupDone - 1 : codes[i] = "zero"
    /\ (pc # "setup" /\ codes[SetupDone] = "nonzero") =>
          /\ \E i \in 1 .. Len(log) : log[i] = Diag("error", "Command failed")
          /\ Len(cmds) = SetupDone => (pc = "checkoutBase" /\ failed = <<>>)
          /\ failed # <<>> => Len(Steps) >= 1
          /\ Len(Steps) >= 1 => Steps[1] = <<"git", "checkout", args.branchName>>

\* C29 witness: cargo install exited with 1, neither git fetch nor cargo clean
\* was run although both were asked for, and the four steps and the report
\* followed without a failure of the run.
C29_Witness ==
    /\ args.doFetch /\ args.doClean
    /\ SetupDone = 1 /\ cmds[1] = MainInstall /\ codes[1] = "nonzero"
    /\ Steps = StepOrder
    /\ failed = <<>>
    /\ mdTable \in ReportTexts

Entries == result1.benchmarks
Parsed == pc # "parseBase"

\* C6: a run with a benchmark record that lacks its estimates or one of mean,
\* median and std_dev fails to parse as a whole: an error is thrown and no result
\* list is returned, whatever the position of the record and however many valid
\* records precede it.
C6_AllOrNothing ==
    (Parsed /\ \E i \in 1 .. Len(Entries) : Malformed(Entries[i].value)) =>
        /\ pc = "failed"
        /\ error # ""
        /\ baseResults = None

\* C6 witness: the parse failed on a second record without std_dev, after a
\* first record that is valid.
C6_Witness ==
    /\ pc = "failed"
    /\ Len(Entries) = 2
    /\ ~Malformed(Entries[1].value)
    /\ Entries[2].value = MissingStdDev
    /\ baseResults = None

\* the diagnostics of the parse are the console.error of the missing key and
\* then the core.error of the catch block
MissingKeyLogged ==
    log = <<Diag("console.error", "No 'benchmarks' key found"),
            Diag("error", "Exception while parsing JSON results")>>

\* C30 as stated: a text that is valid JSON and has no top-level benchmarks key
\* makes resultsFromJSONString log the missing key and then fail with an error;
\* no result list, empty or not, is returned.
C30_MissingKeyLoggedThenFails ==
    (Parsed /\ result1.valid /\ ~result1.hasBenchmarks) =>
        /\ pc = "failed"
        /\ error # ""
        /\ baseResults = None
        /\ MissingKeyLogged

\* C30 amended: such a text makes resultsFromJSONString fail with an error and
\* return no result list; the missing key is logged before that unless the text
\* is the JSON value null, for which the error is logged alone.
C30_MissingKeyFails ==
    (Parsed /\ result1.valid /\ ~result1.hasBenchmarks) =>
        /\ pc = "failed"
        /\ error = "TypeError"
        /\ baseResults = None
        /\ ~result1.null => MissingKeyLogged
        /\ result1.null => log = <<Diag("error", "Exception while parsing JSON results")>>

\* C30 witness: the parse of an object without benchmarks has failed with a
\* TypeError after the log of the missing key.
C30_Witness ==
    /\ pc = "failed"
    /\ result1 = NoBenchmarksKey
    /\ error = "TypeError"
    /\ baseResults = None
    /\ MissingKeyLogged

\* C7: a valid export gives one BenchmarkResult per key of benchmarks, in order,
\* named by the key, with mean.pointEstimate the record's mean point_estimate.
C7_OnePerKey ==
    (Parsed /\ result1.valid /\ result1.hasBenchmarks
            /\ \A i \in 1 .. Len(Entries) : ~Malformed(Entries[i].value)) =>
        /\ pc = "parseChanges"
        /\ Len(baseResults) = Len(Entries)
        /\ \A i \in 1 .. Len(Entries) :
              /\ baseResults[i].name = Entries[i].name
              /\ baseResults[i].mean.pointEstimate
                    = Entries[i].value.criterion_estimates_v1.mean.point_estimate

\* C7 witness: two records with the means 1 and 2 were parsed into two results.
C7_Witness ==
    /\ pc = "parseChanges"
    /\ Len(Entries) = 2
    /\ Len(baseResults) = 2
    /\ baseResults[1].mean.pointEstimate = Num(1)
    /\ baseResults[2].mean.pointEstimate = Num(2)

====
